---- MODULE Spec2Model ----
(***************************************************************************)
(* A model of twinstar, a Gemini server library: the Meta header value     *)
(* (src/types/meta.rs), the request-line reader and the connection engine  *)
(* (src/lib.rs).  Strings are sequences of UTF-8 bytes, as in Rust.        *)
(***************************************************************************)
EXTENDS Integers, Sequences, FiniteSets, TLC

VARIABLES
    metaIn,     \* the string handed to a Meta constructor (UTF-8 bytes)
    metaPc,     \* "input", then the constructor that was applied
    metaRes,    \* the constructor's outcome
    recvIn,     \* the bytes the client sends on the stream
    recvPc,     \* "input", then "done" once receive_request returned
    recvRes,    \* what receive_request returned
    timeout,            \* Server::timeout, in ticks
    complex_timeout,    \* Server::complex_timeout, an Option of ticks
    handler,            \* Server::handler: the ways the installed handler may end
    clients,            \* the number of clients that connect to the listener
    serve,              \* Server::serve: "idle", "running" or the error it returned
    accepted,           \* the number of connections accepted so far
    conns,              \* the connection tasks, by order of acceptance
    root,       \* the root RoutingNode: the tree's nodes, by their path
    inserted,   \* the routes add_route_by_path accepted: [key, data]
    routeOp,    \* the last call on the tree and what it returned
    arg,        \* the argument of a call of a function of src/types
    fn,         \* "input", then the function that was called
    ret,        \* what the call returned
    items,      \* Document::items
    docOp,      \* the last builder method called on the document
    strips_bare_cr  \* str::lines drops a '\r' that ends the text (older std) or keeps it

metaVars == <<metaIn, metaPc, metaRes>>
recvVars == <<recvIn, recvPc, recvRes>>
cfgVars == <<timeout, complex_timeout, handler, clients>>
srvVars == <<timeout, complex_timeout, handler, clients, serve, accepted, conns>>

routeVars == <<root, inserted, routeOp>>
callVars == <<arg, fn, ret>>
docVars == <<items, docOp, strips_bare_cr>>

vars == <<metaIn, metaPc, metaRes, recvIn, recvPc, recvRes,
          timeout, complex_timeout, handler, clients, serve, accepted, conns,
          root, inserted, routeOp, arg, fn, ret, items, docOp, strips_bare_cr>>

(***************************************************************************)
(* Bounds of the explored inputs.                                          *)
(***************************************************************************)
MaxHead == 1      \* code points in front of the run of 'x'
MaxTail == 2      \* code points behind the run of 'x'
MaxSlack == 4     \* the run of 'x' is 0, or within MaxSlack of MAX_LEN
MaxOver == 4      \* request lines run up to REQUEST_URI_MAX_LEN + MaxOver bytes
MaxConns == 2     \* connections the listener hands out
BaseTimeout == 1      \* the configured timeout, in ticks
ComplexTimeout == 2   \* the configured complex-body timeout, in ticks
MaxHandlerTicks == 1  \* ticks a handler is followed for
MaxRoutes == 3    \* routes add_route_by_path accepts
MaxPathSegs == 3  \* segments of a path that is looked up

(***************************************************************************)
(* UTF-8 strings.                                                          *)
(***************************************************************************)
MAX_LEN == 1024

LF == 10
CR == 13

\* 'x', '\n', U+00E9 (2 bytes) and U+1F980 (4 bytes, the crab of the tests)
Alphabet == {<<120>>, <<LF>>, <<195, 169>>, <<240, 159, 166, 128>>}

RECURSIVE CharSeqs(_)
CharSeqs(n) ==
    IF n = 0 THEN {<<>>}
    ELSE LET p == CharSeqs(n - 1) IN p \cup {s \o c : s \in p, c \in Alphabet}

Pad(k) == [i \in 1..k |-> 120]

PadLens == {0} \cup ((MAX_LEN - MaxSlack)..(MAX_LEN + MaxSlack))

MetaInputs ==
    {h \o Pad(k) \o t : h \in CharSeqs(MaxHead), k \in PadLens, t \in CharSeqs(MaxTail)}

\* a UTF-8 continuation byte (10xxxxxx)
IsContinuation(b) == b >= 128 /\ b < 192

\* char::len_utf8, read off the lead byte
LenUtf8(b) ==
    IF b < 128 THEN 1 ELSE IF b < 224 THEN 2 ELSE IF b < 240 THEN 3 ELSE 4

\* str::char_indices: the byte offsets (from 0) at which a code point starts
CharIndices(s) == {i \in 0..(Len(s) - 1) : ~IsContinuation(s[i + 1])}

\* str::is_char_boundary
IsCharBoundary(s, p) ==
    \/ p = 0
    \/ p = Len(s)
    \/ p < Len(s) /\ ~IsContinuation(s[p + 1])

NoneStr == [some |-> FALSE, val |-> <<>>]

\* str::get(..p): None unless p is a char boundary of s
StrGetTo(s, p) ==
    IF p <= Len(s) /\ IsCharBoundary(s, p)
    THEN [some |-> TRUE, val |-> SubSeq(s, 1, p)]
    ELSE NoneStr

Contains(s, b) == \E i \in 1..Len(s) : s[i] = b

MinOf(S) == CHOOSE i \in S : \A j \in S : i <= j

(***************************************************************************)
(* Meta (src/types/meta.rs).                                               *)
(***************************************************************************)
MetaOk(s) == [kind |-> "Ok", val |-> s, msg |-> ""]
MetaErr(m) == [kind |-> "Err", val |-> <<>>, msg |-> m]
MetaPanic(m) == [kind |-> "Panic", val |-> <<>>, msg |-> m]
MetaNone == [kind |-> "None", val |-> <<>>, msg |-> ""]

Meta_new_off_by_one(meta) ==
    IF Contains(meta, LF) THEN MetaErr("Meta must not contain newlines")
    ELSE IF ~(Len(meta) < MAX_LEN) THEN MetaErr("Meta must not exceed 1024 bytes")
    ELSE MetaOk(meta)

Meta_new_unchecked(meta) == MetaOk(meta)

\* Meta::new
Meta_new(meta) ==
    IF Contains(meta, LF) THEN MetaErr("Meta must not contain newlines")
    ELSE IF ~(Len(meta) <= MAX_LEN) THEN MetaErr("Meta must not exceed 1024 bytes")
    ELSE MetaOk(meta)

\* the closure handed to position() in Meta::new_lossy
TruncateHere(meta, i) ==
    LET is_newline == meta[i + 1] = LF
        exceeds_limit == (i + LenUtf8(meta[i + 1])) > MAX_LEN
    IN  is_newline \/ exceeds_limit

\* meta.char_indices().position(..): Some(the number of code points in front
\* of the first one the closure accepts), or None (-1)
TruncatePos(meta) ==
    LET hits == {i \in CharIndices(meta) : TruncateHere(meta, i)}
    IN  IF hits = {} THEN -1
        ELSE Cardinality({j \in CharIndices(meta) : j < MinOf(hits)})

\* Meta::new_lossy
Meta_new_lossy(meta) ==
    LET truncate_pos == TruncatePos(meta)
    IN  IF truncate_pos = -1 THEN MetaOk(meta)
        ELSE LET got == StrGetTo(meta, truncate_pos)
             IN  IF got.some THEN MetaOk(got.val) ELSE MetaPanic("twinstar BUG")

MetaIdle ==
    /\ metaIn = <<>>
    /\ metaPc = "idle"
    /\ metaRes = MetaNone

MetaNew ==
    /\ metaPc = "input"
    /\ metaRes' = Meta_new(metaIn)
    /\ metaPc' = "new"
    /\ UNCHANGED <<metaIn, recvVars, srvVars, routeVars, callVars, docVars>>

MetaNewLossy ==
    /\ metaPc = "input"
    /\ metaRes' = Meta_new_lossy(metaIn)
    /\ metaPc' = "new_lossy"
    /\ UNCHANGED <<metaIn, recvVars, srvVars, routeVars, callVars, docVars>>

(***************************************************************************)
(* The request-line reader (src/lib.rs, receive_request).                  *)
(***************************************************************************)
REQUEST_URI_MAX_LEN == 1024

CRLF == <<CR, LF>>

BadFraming == "Request header not terminated with CRLF"
UriTooLong == "Request URI too long"
InvalidUri == "Request URI is invalid"
InvalidRequest == "Failed to create request from URI"
IoError == "io error"

\* AsyncReadExt::take: at most limit bytes of the stream
Take(stream, limit) ==
    SubSeq(stream, 1, IF Len(stream) < limit THEN Len(stream) ELSE limit)

ReadUntil_to_end(stream, delim) == stream

\* AsyncBufReadExt::read_until: the bytes up to and including the first
\* delim, or all of them when there is none (end of stream)
ReadUntil(stream, delim) ==
    LET at == {i \in 1..Len(stream) : stream[i] = delim}
    IN  IF at = {} THEN stream ELSE SubSeq(stream, 1, MinOf(at))

\* <[u8]>::ends_with
EndsWith(s, suffix) ==
    /\ Len(s) >= Len(suffix)
    /\ SubSeq(s, Len(s) - Len(suffix) + 1, Len(s)) = suffix

RecvOk(uri, n) == [kind |-> "Ok", err |-> "", uri |-> uri, consumed |-> n]
RecvErr(e, n) == [kind |-> "Err", err |-> e, uri |-> <<>>, consumed |-> n]
RecvNone == [kind |-> "None", err |-> "", uri |-> <<>>, consumed |-> 0]

\* What the URI parser and Request::from_uri make of the line: both are
\* decided outside this function, so the verdict is an input.
ParseVerdicts == {"ok", "invalid_uri", "invalid_query"}

receive_request_limit_without_cr(stream, parse) ==
    LET limit == REQUEST_URI_MAX_LEN + 1
        uri == ReadUntil(Take(stream, limit), LF)
    IN  IF ~EndsWith(uri, CRLF)
        THEN IF Len(uri) < REQUEST_URI_MAX_LEN
             THEN RecvErr(BadFraming, Len(uri))
             ELSE RecvErr(UriTooLong, Len(uri))
        ELSE IF parse = "invalid_uri" THEN RecvErr(InvalidUri, Len(uri))
        ELSE IF parse = "invalid_query" THEN RecvErr(InvalidRequest, Len(uri))
        ELSE RecvOk(SubSeq(uri, 1, Len(uri) - 2), Len(uri))

\* receive_request, once read_until has returned Ok
receive_request(stream, parse) ==
    LET limit == REQUEST_URI_MAX_LEN + Len(CRLF)
        uri == ReadUntil(Take(stream, limit), LF)
    IN  IF ~EndsWith(uri, CRLF)
        THEN IF Len(uri) < REQUEST_URI_MAX_LEN
             THEN RecvErr(BadFraming, Len(uri))
             ELSE RecvErr(UriTooLong, Len(uri))
        ELSE IF parse = "invalid_uri" THEN RecvErr(InvalidUri, Len(uri))
        ELSE IF parse = "invalid_query" THEN RecvErr(InvalidRequest, Len(uri))
        ELSE RecvOk(SubSeq(uri, 1, Len(uri) - 2), Len(uri))

\* how the client ends the line, and what it sends after it
Terminators == {CRLF, <<LF>>, <<CR>>, <<>>}
Trailers == {<<>>, <<120, CR, LF>>}

RecvInputs ==
    {Pad(n) \o term \o rest :
        n \in 0..(REQUEST_URI_MAX_LEN + MaxOver), term \in Terminators, rest \in Trailers}

RecvIdle ==
    /\ recvIn = <<>>
    /\ recvPc = "idle"
    /\ recvRes = RecvNone

\* receive_request returns what it made of the line
RecvRequest ==
    /\ recvPc = "input"
    /\ \E parse \in ParseVerdicts : recvRes' = receive_request(recvIn, parse)
    /\ recvPc' = "done"
    /\ UNCHANGED <<recvIn, metaVars, srvVars, routeVars, callVars, docVars>>

\* read_until fails: the `?` of line 303 returns the I/O error
RecvIoFail ==
    /\ recvPc = "input"
    /\ recvRes' = RecvErr(IoError, 0)
    /\ recvPc' = "done"
    /\ UNCHANGED <<recvIn, metaVars, srvVars, routeVars, callVars, docVars>>

(***************************************************************************)
(* Status, ResponseHeader, Response (src/types).                           *)
(***************************************************************************)
INPUT == 10
SENSITIVE_INPUT == 11
SUCCESS == 20
REDIRECT_TEMPORARY == 30
REDIRECT_PERMANENT == 31
TEMPORARY_FAILURE == 40
SERVER_UNAVAILABLE == 41
CGI_ERROR == 42
PROXY_ERROR == 43
SLOW_DOWN == 44
PERMANENT_FAILURE == 50
NOT_FOUND == 51
GONE == 52
PROXY_REQUEST_REFUSED == 53
BAD_REQUEST == 59
CLIENT_CERTIFICATE_REQUIRED == 60
CERTIFICATE_NOT_AUTHORIZED == 61
CERTIFICATE_NOT_VALID == 62

\* the constants of impl Status
StatusCodes ==
    {INPUT, SENSITIVE_INPUT, SUCCESS, REDIRECT_TEMPORARY, REDIRECT_PERMANENT,
     TEMPORARY_FAILURE, SERVER_UNAVAILABLE, CGI_ERROR, PROXY_ERROR, SLOW_DOWN,
     PERMANENT_FAILURE, NOT_FOUND, GONE, PROXY_REQUEST_REFUSED, BAD_REQUEST,
     CLIENT_CERTIFICATE_REQUIRED, CERTIFICATE_NOT_AUTHORIZED, CERTIFICATE_NOT_VALID}

\* the values of the u8 a Status wraps
U8 == 0..255

TextPlain == <<116, 101, 120, 116, 47, 112, 108, 97, 105, 110>>
TextGemini == <<116, 101, 120, 116, 47, 103, 101, 109, 105, 110, 105>>
ImagePng == <<105, 109, 97, 103, 101, 47, 112, 110, 103>>
NotFoundText == <<78, 111, 116, 32, 102, 111, 117, 110, 100>>

\* Option<Body>
NoBody == [some |-> FALSE, bytes |-> <<>>]
SomeBody(b) == [some |-> TRUE, bytes |-> b]
BodyBytes == <<104, 105>>

\* Response { header: ResponseHeader { status, meta }, body }
Response(status, meta, body) == [status |-> status, meta |-> meta, body |-> body]
NoResponse == Response(0, <<>>, NoBody)

\* Response::server_error(""): Meta::new("") cannot fail
Response_server_error == Response(PERMANENT_FAILURE, Meta_new(<<>>).val, NoBody)

\* the responses a handler may return: success with and without a body for
\* three MIME types, and not_found() with and without with_body()
Responses ==
    {Response(SUCCESS, Meta_new_lossy(m).val, b) :
        m \in {TextPlain, TextGemini, ImagePng}, b \in {NoBody, SomeBody(BodyBytes)}}
    \cup {Response(NOT_FOUND, Meta_new_lossy(NotFoundText).val, b) :
        b \in {NoBody, SomeBody(BodyBytes)}}

Status_category_by_last_digit(code) ==
    LET class == code % 10
    IN  CASE class = 1 -> "Input"
          [] class = 2 -> "Success"
          [] class = 3 -> "Redirect"
          [] class = 4 -> "TemporaryFailure"
          [] class = 5 -> "PermanentFailure"
          [] class = 6 -> "ClientCertificateRequired"
          [] OTHER -> "PermanentFailure"

\* Status::category
Status_category(code) ==
    LET class == code \div 10
    IN  CASE class = 1 -> "Input"
          [] class = 2 -> "Success"
          [] class = 3 -> "Redirect"
          [] class = 4 -> "TemporaryFailure"
          [] class = 5 -> "PermanentFailure"
          [] class = 6 -> "ClientCertificateRequired"
          [] OTHER -> "PermanentFailure"

\* StatusCategory::is_success
StatusCategory_is_success(category) == category = "Success"

\* Status::is_success: self.category().is_success()
Status_is_success(status) == StatusCategory_is_success(Status_category(status))

\* u8 as format!("{}") prints it
Decimal(n) ==
    LET d(k) == 48 + k
    IN  IF n < 10 THEN <<d(n)>>
        ELSE IF n < 100 THEN <<d(n \div 10), d(n % 10)>>
        ELSE <<d(n \div 100), d((n \div 10) % 10), d(n % 10)>>

\* send_response_header: format!("{status} {meta}\r\n")
FormatHeader(response) ==
    Decimal(response.status) \o <<32>> \o response.meta \o CRLF

(***************************************************************************)
(* The connection engine (src/lib.rs, Server).                             *)
(***************************************************************************)
NoTimeout == [some |-> FALSE, d |-> 0]
SomeTimeout(d) == [some |-> TRUE, d |-> d]

Conns == 1..MaxConns

\* what a task logs or returns
Running == "running"
TaskOk == "Ok"
TaskPanicked == "panicked"
ErrAccept == "Failed to accept client"
ErrTls == "Failed to establish TLS session"
ErrReceive == "Failed to receive request"
ErrRequestTimeout == "Client timed out while waiting for response"
ErrHandler == "Request handler failed"
ErrSend == "Failed to send response"
ErrHeaderTimeout == "Timed out while sending response header"
ErrBodyTimeout == "Timed out while sending response body"
ErrDataTimeout == "Timed out while sending response data"

\* Request::trailing_segments, an Option<Vec<String>>
NoSegments == [some |-> FALSE, segs |-> <<>>]

\* Request::with_certificate, lines 36-41: the request as it is constructed
Request_with_certificate == [trailing_segments |-> NoSegments]

\* a task: where it stands (pc), the ticks spent under the current deadline
\* (t) and since send_response began (resp), the request it received, what
\* the handler did, how often it was invoked, the response being sent, the
\* bytes written to the stream and how the task ended
NoConn ==
    [pc |-> "none", t |-> 0, resp |-> 0, request |-> Request_with_certificate,
     handler |-> "none", calls |-> 0,
     response |-> NoResponse, out |-> <<>>, outcome |-> Running]

RequestPcs == {"handshake", "read"}
HeaderPcs == {"hdr", "hdr_flush"}
BodyPcs == {"body", "body_flush"}
SinglePcs == {"s_hdr", "s_body", "s_flush"}
SendPcs == HeaderPcs \cup BodyPcs \cup SinglePcs

\* the request lines the clients of the engine send
ServerStreams == {<<120>> \o CRLF, <<120, LF>>, Pad(REQUEST_URI_MAX_LEN + 1) \o CRLF}

Closed_goes_on(conn, outcome) == [conn EXCEPT !.t = 0, !.outcome = outcome]

Closed_leaks_on_panic(conn, outcome) ==
    [conn EXCEPT !.pc = IF outcome = TaskPanicked THEN "leaked" ELSE "closed",
                 !.t = 0, !.resp = 0, !.outcome = outcome]

\* the task ends: its stream is dropped, its clocks stop
Closed_replies_bad_request(conn, outcome) ==
    [conn EXCEPT !.pc = "closed", !.t = 0, !.resp = 0, !.outcome = outcome,
                 !.out = IF outcome = ErrReceive THEN <<53, 57, 32, CR, LF>> ELSE @]

Closed(conn, outcome) == [conn EXCEPT !.pc = "closed", !.t = 0, !.resp = 0, !.outcome = outcome]

AfterTask_stops_on_panic(state, outcome) ==
    IF outcome = TaskPanicked THEN outcome ELSE state

AfterTask_returns_error(state, outcome) ==
    IF outcome = TaskOk THEN state ELSE outcome

\* the closure of tokio::spawn in Server::serve: an error of serve_client is
\* logged, a panic stays in the task; serve goes on either way
AfterTask(state, outcome) == state

handler_result_propagates_error(res) ==
    IF res.kind \in {"panic", "unwrap_panic"} THEN [ok |-> TRUE, response |-> Response_server_error]
    ELSE IF res.kind = "err" THEN [ok |-> FALSE, response |-> NoResponse]
    ELSE [ok |-> TRUE, response |-> res.response]

\* lines 97-103 of serve_client: the outcome of handler.catch_unwind().await
\* made into the Result<Response> that `?` inspects
handler_result(res) ==
    IF res.kind \in {"panic", "unwrap_panic"} THEN [ok |-> TRUE, response |-> Response_server_error]
    ELSE IF res.kind = "err" THEN [ok |-> TRUE, response |-> Response_server_error]
    ELSE [ok |-> TRUE, response |-> res.response]

\* how a handler may end: it panics when invoked, or its future panics,
\* resolves to an error or resolves to a response
HandlerPanicsInvoked == [kind |-> "invoke_panic", response |-> NoResponse]
HandlerPanics == [kind |-> "panic", response |-> NoResponse]
HandlerFails == [kind |-> "err", response |-> NoResponse]
HandlerReturns(r) == [kind |-> "ok", response |-> r]

\* a handler whose future calls request.trailing_segments() and then
\* resolves to a response, as handle_short of examples/routing.rs does
HandlerReadsTrailing(r) == [kind |-> "trailing", response |-> r]

\* Request::trailing_segments, line 61: .as_ref().unwrap() panics on None
Request_trailing_segments(request, res) ==
    IF res.kind # "trailing" THEN res
    ELSE IF request.trailing_segments.some THEN HandlerReturns(res.response)
    ELSE [kind |-> "unwrap_panic", response |-> NoResponse]

HandlerResults ==
    {HandlerPanicsInvoked, HandlerPanics, HandlerFails,
     HandlerReadsTrailing(Response(SUCCESS, Meta_new_lossy(TextGemini).val, SomeBody(BodyBytes)))}
    \cup {HandlerReturns(r) : r \in Responses}

\* a handler that serves one document and one image
SmallHandler ==
    {HandlerPanicsInvoked, HandlerPanics, HandlerFails,
     HandlerReturns(Response(SUCCESS, Meta_new_lossy(TextGemini).val, SomeBody(BodyBytes))),
     HandlerReturns(Response(SUCCESS, Meta_new_lossy(ImagePng).val, SomeBody(BodyBytes)))}

UseSpecialCase_ignores_option(response, cplx) ==
    /\ response.status = SUCCESS /\ response.body.some
    /\ response.meta \in {TextPlain, TextGemini}

\* the chain of ifs that opens send_response: TRUE when the header and the
\* body get separate timeouts
UseSpecialCase(response, cplx) ==
    /\ response.status = SUCCESS /\ response.body.some
    /\ response.meta \in {TextPlain, TextGemini}
    /\ cplx.some

ServerIdle ==
    /\ timeout = 0
    /\ complex_timeout = NoTimeout
    /\ handler = {}
    /\ clients = 0
    /\ serve = "idle"
    /\ accepted = 0
    /\ conns = <<>>

Others == <<metaVars, recvVars, routeVars, callVars, docVars>>

Accept_awaits_task ==
    /\ serve = "running"
    /\ accepted < clients
    /\ \A c \in 1..accepted : conns[c].pc = "closed"
    /\ accepted' = accepted + 1
    /\ conns' = [conns EXCEPT ![accepted + 1] = [NoConn EXCEPT !.pc = "handshake"]]
    /\ UNCHANGED <<cfgVars, serve, Others>>

\* Server::serve: accept() returns a stream and the task is spawned
Accept ==
    /\ serve = "running"
    /\ accepted < clients
    /\ accepted' = accepted + 1
    /\ conns' = [conns EXCEPT ![accepted + 1] = [NoConn EXCEPT !.pc = "handshake"]]
    /\ UNCHANGED <<cfgVars, serve, Others>>

\* Server::serve: accept() fails and `?` returns the error
AcceptFail ==
    /\ serve = "running"
    /\ serve' = ErrAccept
    /\ UNCHANGED <<cfgVars, accepted, conns, Others>>

\* a task ends with `outcome`
End(c, conn, outcome) ==
    /\ conns' = [conns EXCEPT ![c] = Closed(conn, outcome)]
    /\ serve' = AfterTask(serve, outcome)
    /\ UNCHANGED <<cfgVars, accepted, Others>>

\* a task moves on
Step(c, conn) ==
    /\ conns' = [conns EXCEPT ![c] = conn]
    /\ UNCHANGED <<cfgVars, serve, accepted, Others>>

TimeoutAt_body_adds_base(pc) ==
    IF pc \in BodyPcs THEN timeout + complex_timeout.d ELSE timeout

\* the duration of the tokio::time::timeout the await at pc is wrapped in:
\* cplx_timeout for fut_send_body (line 163), self.timeout for the others
\* (lines 78, 146, 192)
TimeoutAt(pc) ==
    IF pc \in BodyPcs THEN complex_timeout.d ELSE timeout

\* a tick passes for task c, within the timeout it is under
Tick(c) ==
    LET conn == conns[c]
    IN  /\ \/ conn.pc \in RequestPcs \cup SendPcs /\ conn.t < TimeoutAt(conn.pc)
           \/ conn.pc = "poll" /\ conn.t < MaxHandlerTicks
        /\ Step(c, [conn EXCEPT !.t = @ + 1,
                                !.resp = IF conn.pc \in SendPcs THEN @ + 1 ELSE @])

Handshaken_restarts_timeout(conn) == [conn EXCEPT !.pc = "read", !.t = 0]

\* fut_accept_request goes from the TLS accept to receive_request, inside
\* the one timeout of line 78
Handshaken(conn) == [conn EXCEPT !.pc = "read"]

\* tls_acceptor.accept(stream) completes
TlsDone(c) ==
    /\ conns[c].pc = "handshake"
    /\ Step(c, Handshaken(conns[c]))

TlsFail(c) ==
    /\ conns[c].pc = "handshake"
    /\ End(c, conns[c], ErrTls)

\* timeout(self.timeout, fut_accept_request) elapses
RequestTimeout(c) ==
    /\ conns[c].pc \in RequestPcs
    /\ conns[c].t = TimeoutAt(conns[c].pc)
    /\ End(c, conns[c], ErrRequestTimeout)

\* receive_request returns; on Ok the certificate is set (lines 82-92)
Receive(c) ==
    /\ conns[c].pc = "read"
    /\ \E stream \in ServerStreams, parse \in ParseVerdicts :
        LET r == receive_request(stream, parse)
        IN  IF r.kind = "Ok"
            THEN Step(c, [conns[c] EXCEPT !.pc = "invoke", !.t = 0,
                                          !.request = Request_with_certificate])
            ELSE End(c, conns[c], ErrReceive)

ReceiveIoFail(c) ==
    /\ conns[c].pc = "read"
    /\ End(c, conns[c], ErrReceive)

\* (self.handler)(request), line 94: the handler returns its future
Invoke(c) ==
    /\ conns[c].pc = "invoke"
    /\ handler \ {HandlerPanicsInvoked} # {}
    /\ Step(c, [conns[c] EXCEPT !.pc = "poll", !.handler = "pending", !.calls = @ + 1])

\* (self.handler)(request), line 94: the handler panics before it returns a
\* future; nothing catches the unwind, which ends the task
InvokePanics(c) ==
    /\ conns[c].pc = "invoke"
    /\ HandlerPanicsInvoked \in handler
    /\ End(c, [conns[c] EXCEPT !.handler = "invoke_panic", !.calls = @ + 1], TaskPanicked)

\* handler.catch_unwind().await completes, the response is chosen (lines
\* 97-103) and send_response runs up to its first await
HandlerDone(c) ==
    /\ conns[c].pc = "poll"
    /\ \E res \in handler \ {HandlerPanicsInvoked} :
        LET ran == Request_trailing_segments(conns[c].request, res)
            got == handler_result(ran)
            conn == [conns[c] EXCEPT !.handler = ran.kind, !.t = 0]
        IN  IF ~got.ok THEN End(c, conn, ErrHandler)
            ELSE Step(c, [conn EXCEPT
                    !.response = got.response,
                    !.pc = IF UseSpecialCase(got.response, complex_timeout)
                           THEN "hdr" ELSE "s_hdr"])

Written_header_again(pc, response) ==
    IF pc \in {"hdr", "s_hdr"} THEN FormatHeader(response)
    ELSE FormatHeader(response) \o response.body.bytes

Written_body_first(pc, response) ==
    IF pc \in {"body", "s_hdr"} THEN FormatHeader(response) ELSE response.body.bytes

\* what the write awaited at pc puts on the stream: send_response_header
\* writes the header line, send_response_body the bytes of the body
Written(pc, response) ==
    IF pc \in {"hdr", "s_hdr"} THEN FormatHeader(response) ELSE response.body.bytes

\* special case: send_response_header
SendHeader(c) ==
    /\ conns[c].pc = "hdr"
    /\ Step(c, [conns[c] EXCEPT !.pc = "hdr_flush",
                                  !.out = @ \o Written("hdr", conns[c].response)])

\* special case: the header is flushed, the body's timeout starts
FlushHeader(c) ==
    /\ conns[c].pc = "hdr_flush"
    /\ Step(c, [conns[c] EXCEPT !.pc = "body", !.t = 0])

HeaderTimeout(c) ==
    /\ conns[c].pc \in HeaderPcs
    /\ conns[c].t = TimeoutAt(conns[c].pc)
    /\ End(c, conns[c], ErrHeaderTimeout)

\* special case: send_response_body
SendBody(c) ==
    /\ conns[c].pc = "body"
    /\ Step(c, [conns[c] EXCEPT !.pc = "body_flush",
                                  !.out = @ \o Written("body", conns[c].response)])

FlushBody(c) ==
    /\ conns[c].pc = "body_flush"
    /\ End(c, conns[c], TaskOk)

BodyTimeout(c) ==
    /\ conns[c].pc \in BodyPcs
    /\ conns[c].t = TimeoutAt(conns[c].pc)
    /\ End(c, conns[c], ErrBodyTimeout)

\* normal case: send_response_header
SendHeaderData(c) ==
    /\ conns[c].pc = "s_hdr"
    /\ Step(c, [conns[c] EXCEPT
            !.pc = IF conns[c].response.body.some THEN "s_body" ELSE "s_flush",
            !.out = @ \o Written("s_hdr", conns[c].response)])

\* normal case: send_response_body, if let Some(body) = maybe_body
SendBodyData(c) ==
    /\ conns[c].pc = "s_body"
    /\ Step(c, [conns[c] EXCEPT !.pc = "s_flush",
                                  !.out = @ \o Written("s_body", conns[c].response)])

FlushData(c) ==
    /\ conns[c].pc = "s_flush"
    /\ End(c, conns[c], TaskOk)

DataTimeout(c) ==
    /\ conns[c].pc \in SinglePcs
    /\ conns[c].t = TimeoutAt(conns[c].pc)
    /\ End(c, conns[c], ErrDataTimeout)

\* a write or a flush fails
SendIoFail(c) ==
    /\ conns[c].pc \in SendPcs
    /\ End(c, conns[c], ErrSend)

(***************************************************************************)
(* The routing tree (src/routing.rs).  A path is the sequence of its       *)
(* segments; the tree is the set of its nodes, each named by the segments  *)
(* that lead to it from the root, with the Option<T> the node holds.       *)
(***************************************************************************)
\* the absolute paths routes are added at: "/", "/a", "/a/", "//a", "/b",
\* "/a/b", "/a/b/", "/a//b", "/a/b/a", "/b/a", "/a/./b", "/b/../a", "/a/.."
RoutePaths ==
    {<<"">>, <<"a">>, <<"a", "">>, <<"", "a">>, <<"b">>,
     <<"a", "b">>, <<"a", "b", "">>, <<"a", "", "b">>, <<"a", "b", "a">>, <<"b", "a">>,
     <<"a", ".", "b">>, <<"b", "..", "a">>, <<"a", "..">>}

\* the segments of the paths that are looked up
LookupSegments == {"", "a", "b"}

RECURSIVE SeqsUpTo(_, _)
SeqsUpTo(S, n) ==
    IF n = 0 THEN {<<>>}
    ELSE LET p == SeqsUpTo(S, n - 1) IN p \cup {s \o <<x>> : s \in p, x \in S}

LookupPaths == SeqsUpTo(LookupSegments, MaxPathSegs)

\* Option<T>, T being the number of the handler
NoneT == [some |-> FALSE, val |-> 0]
SomeT(v) == [some |-> TRUE, val |-> v]

\* RoutingNode::default: no value, no children
RoutingNode_default == (<<>> :> NoneT)

RECURSIVE RemoveDotSegments(_, _)
RemoveDotSegments(rest, out) ==
    IF rest = <<>> THEN out
    ELSE IF Head(rest) = "." THEN RemoveDotSegments(Tail(rest), out)
    ELSE IF Head(rest) = ".."
    THEN RemoveDotSegments(Tail(rest),
            IF out = <<>> THEN out ELSE SubSeq(out, 1, Len(out) - 1))
    ELSE RemoveDotSegments(Tail(rest), out \o <<Head(rest)>>)

\* uriparse's Path::normalize(false): "." and ".." are resolved, empty
\* segments stay
Path_normalize(path) == RemoveDotSegments(path, <<>>)

\* the segments that are not ""
NonEmpty(path) == SelectSeq(path, LAMBDA seg : seg # "")

AddOk(tree) == [ok |-> TRUE, tree |-> tree]
AddConflict(tree) == [ok |-> FALSE, tree |-> tree]

add_route_by_path_clears_parent(tree, path, data) ==
    LET walked == NonEmpty(Path_normalize(path))
        nodes == {SubSeq(walked, 1, k) : k \in 0..Len(walked)}
        grown == [n \in DOMAIN tree \cup nodes |-> IF n \in DOMAIN tree THEN tree[n] ELSE NoneT]
        parent == SubSeq(walked, 1, Len(walked) - 1)
    IN  IF grown[walked].some THEN AddConflict(grown)
        ELSE IF walked = <<>> THEN AddOk([grown EXCEPT ![walked] = SomeT(data)])
        ELSE AddOk([grown EXCEPT ![walked] = SomeT(data), ![parent] = NoneT])

add_route_by_path_conflict_overwrites(tree, path, data) ==
    LET walked == NonEmpty(Path_normalize(path))
        nodes == {SubSeq(walked, 1, k) : k \in 0..Len(walked)}
        grown == [n \in DOMAIN tree \cup nodes |-> IF n \in DOMAIN tree THEN tree[n] ELSE NoneT]
    IN  IF grown[walked].some THEN AddConflict([grown EXCEPT ![walked] = SomeT(data)])
        ELSE AddOk([grown EXCEPT ![walked] = SomeT(data)])

add_route_by_path_overwrites(tree, path, data) ==
    LET segments == Path_normalize(path)
        walked == NonEmpty(segments)
        nodes == {SubSeq(walked, 1, k) : k \in 0..Len(walked)}
        grown == [n \in DOMAIN tree \cup nodes |-> IF n \in DOMAIN tree THEN tree[n] ELSE NoneT]
    IN  AddOk([grown EXCEPT ![walked] = SomeT(data)])

add_route_by_path_keeps_empty(tree, path, data) ==
    LET walked == Path_normalize(path)
        nodes == {SubSeq(walked, 1, k) : k \in 0..Len(walked)}
        grown == [n \in DOMAIN tree \cup nodes |-> IF n \in DOMAIN tree THEN tree[n] ELSE NoneT]
    IN  IF grown[walked].some THEN AddConflict(grown)
        ELSE AddOk([grown EXCEPT ![walked] = SomeT(data)])

\* RoutingNode::add_route_by_path: the tree afterwards and Ok or
\* Err(ConflictingRouteError)
add_route_by_path(tree, path, data) ==
    LET segments == Path_normalize(path)
        \* the segments for which entry(..).or_default() is called
        walked == NonEmpty(segments)
        nodes == {SubSeq(walked, 1, k) : k \in 0..Len(walked)}
        grown == [n \in DOMAIN tree \cup nodes |-> IF n \in DOMAIN tree THEN tree[n] ELSE NoneT]
    IN  IF grown[walked].some THEN AddConflict(grown)
        ELSE AddOk([grown EXCEPT ![walked] = SomeT(data)])

Seen(last, since) == [last |-> last, since |-> since]

Visit_keeps_first(maybe_handler, last_seen_handler, since_last_handler) ==
    IF maybe_handler.some /\ ~last_seen_handler.some
    THEN Seen(maybe_handler, <<>>)
    ELSE Seen(last_seen_handler, since_last_handler)

Visit_keeps_segments(maybe_handler, last_seen_handler, since_last_handler) ==
    IF maybe_handler.some
    THEN Seen(maybe_handler, since_last_handler)
    ELSE Seen(last_seen_handler, since_last_handler)

\* match_path, lines 52-55: a node with a value becomes the last seen handler
\* and clears the segments gathered since the one before
Visit(maybe_handler, last_seen_handler, since_last_handler) ==
    IF maybe_handler.some
    THEN Seen(maybe_handler, <<>>)
    ELSE Seen(last_seen_handler, since_last_handler)

\* match_path, the loop: `path` is what the iterator has yet to yield; the
\* result is the state of the locals at the break
RECURSIVE MatchLoop(_, _, _, _, _)
MatchLoop(tree, node, path, last_seen_handler, since_last_handler) ==
    LET seen == Visit(tree[node], last_seen_handler, since_last_handler)
    IN  IF path # <<>>
        THEN LET segment == Head(path)
                 pushed == seen.since \o <<segment>>
             IN  IF (node \o <<segment>>) \in DOMAIN tree
                 THEN MatchLoop(tree, node \o <<segment>>, Tail(path), seen.last, pushed)
                 ELSE [last |-> seen.last, since |-> pushed, path |-> Tail(path)]
        ELSE [last |-> seen.last, since |-> seen.since, path |-> path]

NoMatch == [some |-> FALSE, segs |-> <<>>, val |-> 0]
Match(segs, val) == [some |-> TRUE, segs |-> segs, val |-> val]

match_path_needs_leaf(tree, path) ==
    LET end == MatchLoop(tree, <<>>, NonEmpty(path), NoneT, <<>>)
    IN  IF end.last.some /\ end.since = <<>>
        THEN Match(end.since \o end.path, end.last.val)
        ELSE NoMatch

\* RoutingNode::match_path
match_path(tree, path) ==
    LET end == MatchLoop(tree, <<>>, NonEmpty(path), NoneT, <<>>)
    IN  IF end.last.some
        THEN Match(end.since \o end.path, end.last.val)
        ELSE NoMatch

\* the keys of the HashMap of node n: its child nodes
Children(tree, n) ==
    {m \in DOMAIN tree : Len(m) = Len(n) + 1 /\ SubSeq(m, 1, Len(n)) = n}

\* HashMap::shrink_to_fit on the map of node n: the entries stay; what
\* shrinks is the capacity, which a lookup cannot see and the tree here has
\* not
HashMap_shrink_to_fit(tree, n) ==
    [m \in DOMAIN tree |-> tree[m]]

\* the loop of shrink: a map is popped and shrunk, the maps of its values
\* are pushed
RECURSIVE ShrinkLoop(_, _)
ShrinkLoop(tree, to_shrink) ==
    IF to_shrink = <<>> THEN tree
    ELSE LET n == to_shrink[Len(to_shrink)]
             rest == SubSeq(to_shrink, 1, Len(to_shrink) - 1)
             RECURSIVE SeqOf(_)
             SeqOf(S) == IF S = {} THEN <<>>
                         ELSE LET x == CHOOSE x \in S : TRUE
                              IN  <<x>> \o SeqOf(S \ {x})
         IN  ShrinkLoop(HashMap_shrink_to_fit(tree, n), rest \o SeqOf(Children(tree, n)))

shrink_prunes(tree) ==
    [n \in {m \in DOMAIN tree : m = <<>> \/ tree[m].some} |-> tree[n]]

\* RoutingNode::shrink
shrink(tree) == ShrinkLoop(tree, <<(<<>>)>>)

NoOp == [op |-> "none", path |-> <<>>, ok |-> TRUE, found |-> NoMatch]

RouteIdle ==
    /\ root = RoutingNode_default
    /\ inserted = {}
    /\ routeOp = NoOp

\* the normalized path a route is added at
RouteKey(path) == NonEmpty(Path_normalize(path))

\* add_route_by_path is called; the n-th route added carries handler n
AddRoute ==
    /\ Cardinality(inserted) < MaxRoutes
    /\ \E path \in RoutePaths :
        LET data == Cardinality(inserted) + 1
            r == add_route_by_path(root, path, data)
        IN  /\ root' = r.tree
            /\ inserted' = IF r.ok
                           THEN inserted \cup {[key |-> RouteKey(path), data |-> data]}
                           ELSE inserted
            /\ routeOp' = [op |-> "add", path |-> path, ok |-> r.ok, found |-> NoMatch]
    /\ UNCHANGED <<metaVars, recvVars, srvVars, callVars, docVars>>

\* match_path is called
MatchPath ==
    /\ \E path \in LookupPaths :
        routeOp' = [op |-> "match", path |-> path, ok |-> TRUE,
                    found |-> match_path(root, path)]
    /\ UNCHANGED <<root, inserted, metaVars, recvVars, srvVars, callVars, docVars>>

\* shrink is called
Shrink ==
    /\ root' = shrink(root)
    /\ routeOp' = [op |-> "shrink", path |-> <<>>, ok |-> TRUE, found |-> NoMatch]
    /\ UNCHANGED <<inserted, metaVars, recvVars, srvVars, callVars, docVars>>

(***************************************************************************)
(* Calls of the functions of src/types, one call at a time.                *)
(***************************************************************************)
NoArg == [of |-> "none"]
NoRet == [none |-> TRUE]

CallIdle ==
    /\ arg = NoArg
    /\ fn = "idle"
    /\ ret = NoRet

\* the other variables, for the calls
NotCalls == <<metaVars, recvVars, srvVars, routeVars, docVars>>

\* `name` is called on arg and returns `result`
Call(name, result) ==
    /\ fn = "input"
    /\ fn' = name
    /\ ret' = result
    /\ UNCHANGED <<arg, NotCalls>>

\* Status::category is called on a status
StatusCategory ==
    /\ arg.of = "Status"
    /\ Call("category", Status_category(arg.code))

\* Status::is_success is called on a status
StatusIsSuccess ==
    /\ arg.of = "Status"
    /\ Call("is_success", Status_is_success(arg.code))

\* the headers built and written: every status constant with a short meta,
\* the lowest and the highest constant with every meta input
HeaderInputs ==
    [of : {"ResponseHeader"}, status : StatusCodes, meta : CharSeqs(MaxHead)]
    \cup [of : {"ResponseHeader"}, status : {INPUT, CERTIFICATE_NOT_VALID},
          meta : MetaInputs]

\* a ResponseHeader { status, meta } handed to send_response_header, or what
\* stopped its construction
HeaderLine(status, meta) ==
    IF meta.kind = "Ok"
    THEN [kind |-> "line", meta |-> meta.val,
          line |-> FormatHeader(Response(status, meta.val, NoBody))]
    ELSE [kind |-> meta.kind, meta |-> <<>>, line |-> <<>>]

\* a header whose meta comes from Meta::new (input, server_error) is written
WriteHeader ==
    /\ arg.of = "ResponseHeader"
    /\ Call("header", HeaderLine(arg.status, Meta_new(arg.meta)))

\* a header whose meta comes from Meta::new_lossy (input_lossy, success,
\* server_error_lossy, ...) is written
WriteHeaderLossy ==
    /\ arg.of = "ResponseHeader"
    /\ Call("header_lossy", HeaderLine(arg.status, Meta_new_lossy(arg.meta)))

(***************************************************************************)
(* Request construction (src/types/request.rs).                            *)
(***************************************************************************)
MaxQueryTokens == 3

\* what a query is written from: a byte written as itself, or as a percent
\* escape with upper-case or lower-case hex digits.  'h' and '2' can be
\* written as themselves; a space, '%' and the bytes of "\u00e9" (C3 A9) and
\* FF cannot.
QueryTokens ==
    [byte : {104, 50}, form : {"literal"}]
    \cup [byte : {104, 32, 37, 195, 169, 255}, form : {"escape"}]
    \cup [byte : {195}, form : {"escape_lower"}]

\* Option<Query>
NoQuery == [some |-> FALSE, tokens |-> <<>>]
SomeQuery(tokens) == [some |-> TRUE, tokens |-> tokens]

Queries == {NoQuery} \cup {SomeQuery(q) : q \in SeqsUpTo(QueryTokens, MaxQueryTokens)}

HexDigit(n, upper) ==
    IF n < 10 THEN 48 + n ELSE IF upper THEN 55 + n ELSE 87 + n

\* the value of a hex digit, or -1
HexVal(c) ==
    IF c \in 48..57 THEN c - 48
    ELSE IF c \in 65..70 THEN c - 55
    ELSE IF c \in 97..102 THEN c - 87
    ELSE -1

\* the text of a token in the URI the client sent
TokenText(tok) ==
    IF tok.form = "literal" THEN <<tok.byte>>
    ELSE <<37, HexDigit(tok.byte \div 16, tok.form = "escape"),
               HexDigit(tok.byte % 16, tok.form = "escape")>>

RECURSIVE QueryText(_)
QueryText(tokens) ==
    IF tokens = <<>> THEN <<>>
    ELSE TokenText(Head(tokens)) \o QueryText(Tail(tokens))

\* RFC 3986 unreserved characters
Unreserved(b) ==
    b \in (48..57) \cup (65..90) \cup (97..122) \cup {45, 46, 95, 126}

\* uri.normalize() on the query: escapes of unreserved characters are
\* decoded, the hex digits of the others are made upper-case
RECURSIVE Query_normalize(_)
Query_normalize(s) ==
    IF s = <<>> THEN <<>>
    ELSE IF s[1] = 37 /\ Len(s) >= 3
    THEN LET v == 16 * HexVal(s[2]) + HexVal(s[3])
             rest == Query_normalize(SubSeq(s, 4, Len(s)))
         IN  IF Unreserved(v) THEN <<v>> \o rest
             ELSE <<37, HexDigit(HexVal(s[2]), TRUE), HexDigit(HexVal(s[3]), TRUE)>>
                  \o rest
    ELSE <<s[1]>> \o Query_normalize(Tail(s))

\* percent_decode_str: '%' and two hex digits give one byte, anything else
\* is copied
RECURSIVE percent_decode_str(_)
percent_decode_str(s) ==
    IF s = <<>> THEN <<>>
    ELSE IF s[1] = 37 /\ Len(s) >= 3 /\ HexVal(s[2]) >= 0 /\ HexVal(s[3]) >= 0
    THEN <<16 * HexVal(s[2]) + HexVal(s[3])>>
         \o percent_decode_str(SubSeq(s, 4, Len(s)))
    ELSE <<s[1]>> \o percent_decode_str(Tail(s))

\* str::from_utf8 accepts the bytes: they split into well-formed sequences
RECURSIVE IsUtf8(_)
IsUtf8(s) ==
    IF s = <<>> THEN TRUE
    ELSE LET b == s[1]
             n == IF b < 128 THEN 1
                  ELSE IF b \in 194..223 THEN 2
                  ELSE IF b \in 224..239 THEN 3
                  ELSE IF b \in 240..244 THEN 4
                  ELSE 0
             lo == IF b = 224 THEN 160 ELSE IF b = 240 THEN 144 ELSE 128
             hi == IF b = 237 THEN 159 ELSE IF b = 244 THEN 143 ELSE 191
         IN  /\ n > 0
             /\ Len(s) >= n
             /\ n >= 2 => s[2] \in lo..hi
             /\ \A i \in 3..n : IsContinuation(s[i])
             /\ IsUtf8(SubSeq(s, n + 1, Len(s)))

\* Option<String>
NoInput == [some |-> FALSE, val |-> <<>>]
SomeInput(s) == [some |-> TRUE, val |-> s]

Request_from_uri_lossy(uri) ==
    IF ~uri.some THEN [kind |-> "Ok", input |-> NoInput]
    ELSE [kind |-> "Ok",
          input |-> SomeInput(percent_decode_str(Query_normalize(QueryText(uri.tokens))))]

\* Request::from_uri / Request::with_certificate: the input of the request
Request_from_uri(uri) ==
    IF ~uri.some THEN [kind |-> "Ok", input |-> NoInput]
    ELSE LET query == Query_normalize(QueryText(uri.tokens))
             bytes == percent_decode_str(query)
         IN  IF IsUtf8(bytes) THEN [kind |-> "Ok", input |-> SomeInput(bytes)]
             ELSE [kind |-> "Err", input |-> NoInput]

\* a request is constructed from a parsed URI
RequestFromUri ==
    /\ arg.of = "URIReference"
    /\ Call("from_uri", Request_from_uri(arg.query))

(***************************************************************************)
(* The named constructors (src/types/response_header.rs, response.rs).     *)
(***************************************************************************)
NoCertificateText ==
    <<78, 111, 32, 99, 101, 114, 116, 105, 102, 105, 99, 97, 116, 101, 32,
      112, 114, 111, 118, 105, 100, 101, 100>>
InvalidRedirectText ==
    <<73, 110, 118, 97, 108, 105, 100, 32, 114, 101, 100, 105, 114, 101, 99,
      116, 32, 108, 111, 99, 97, 116, 105, 111, 110>>

\* ResponseHeader { status, meta }, or the panic of Meta::new_lossy
Header(status, meta) ==
    IF meta.kind = "Ok" THEN [kind |-> "Ok", status |-> status, meta |-> meta.val]
    ELSE [kind |-> "Panic", status |-> 0, meta |-> <<>>]

\* location.try_into(): of the strings built from Alphabet, those of
\* unreserved characters only are URI references (relative paths); a newline
\* or a non-ASCII byte is refused
URIReference_try_from(location) ==
    \A i \in 1..Len(location) : Unreserved(location[i])

ResponseHeader_success(mime) == Header(SUCCESS, Meta_new_lossy(mime))

ResponseHeader_not_found == Header(NOT_FOUND, Meta_new_lossy(NotFoundText))

ResponseHeader_bad_request_lossy(reason) ==
    Header(BAD_REQUEST, Meta_new_lossy(reason))

ResponseHeader_client_certificate_required ==
    Header(CLIENT_CERTIFICATE_REQUIRED, Meta_new_lossy(NoCertificateText))

ResponseHeader_redirect_temporary_lossy(location) ==
    IF ~URIReference_try_from(location)
    THEN ResponseHeader_bad_request_lossy(InvalidRedirectText)
    ELSE Header(REDIRECT_TEMPORARY, Meta_new_lossy(location))

\* Response { header, body }, when there is a header
WithHeader(header, body) ==
    IF header.kind = "Ok"
    THEN [kind |-> "Ok", response |-> Response(header.status, header.meta, body)]
    ELSE [kind |-> "Panic", response |-> NoResponse]

\* Response::new
Response_new(header) == WithHeader(header, NoBody)

\* Response::success
Response_success(mime, body) == WithHeader(ResponseHeader_success(mime), SomeBody(body))

\* what the constructors are called with
ResponseArgs ==
    {[of |-> "unit"]}
    \cup [of : {"str"}, s : MetaInputs]
    \cup [of : {"mime"}, mime : {TextPlain, TextGemini, ImagePng},
          body : {<<>>, BodyBytes}]

\* Response::not_found
ResponseNotFound ==
    /\ arg.of = "unit"
    /\ Call("not_found", Response_new(ResponseHeader_not_found))

\* Response::client_certificate_required
ResponseClientCertificateRequired ==
    /\ arg.of = "unit"
    /\ Call("client_certificate_required",
            Response_new(ResponseHeader_client_certificate_required))

\* Response::bad_request_lossy
ResponseBadRequestLossy ==
    /\ arg.of = "str"
    /\ Call("bad_request_lossy", Response_new(ResponseHeader_bad_request_lossy(arg.s)))

\* Response::redirect_temporary_lossy
ResponseRedirectTemporaryLossy ==
    /\ arg.of = "str"
    /\ Call("redirect_temporary_lossy",
            Response_new(ResponseHeader_redirect_temporary_lossy(arg.s)))

\* Response::success
ResponseSuccess ==
    /\ arg.of = "mime"
    /\ Call("success", Response_success(arg.mime, arg.body))

(***************************************************************************)
(* Document (src/types/document.rs).                                       *)
(***************************************************************************)
MaxTextTokens == 2

\* what the texts handed to the builder are written from: a letter, the line
\* ends, a space, the reserved line starts and two beginnings of them
TextTokens ==
    {<<120>>, <<LF>>, <<CR>>, <<32>>, <<61, 62>>, <<96, 96, 96>>, <<35>>, <<42>>,
     <<62>>, <<61>>, <<96, 96>>}

RECURSIVE Concat(_)
Concat(ss) == IF ss = <<>> THEN <<>> ELSE Head(ss) \o Concat(Tail(ss))

Texts == {Concat(ts) : ts \in SeqsUpTo(TextTokens, MaxTextTokens)}

ShortTexts == {Concat(ts) : ts \in SeqsUpTo(TextTokens, 1)}

\* the texts handed where one line is written: the short ones and some of
\* several lines ("x\ny", "x\r\n\ny", "\n#", "x\n")
LineTexts ==
    ShortTexts \cup {<<120, LF, 120>>, <<120, CR, LF, LF, 120>>, <<LF, 35>>, <<120, LF>>}

LINK_START == <<61, 62>>
PREFORMATTED_TOGGLE_START == <<96, 96, 96>>
HEADING_START == <<35>>
UNORDERED_LIST_ITEM_START == <<42>>
QUOTE_START == <<62>>

SPECIAL_STARTS ==
    <<LINK_START, PREFORMATTED_TOGGLE_START, HEADING_START,
      UNORDERED_LIST_ITEM_START, QUOTE_START>>

\* str::starts_with
starts_with(s, start) ==
    /\ Len(s) >= Len(start)
    /\ SubSeq(s, 1, Len(start)) = start

\* starts_with_any
starts_with_any(s, starts) ==
    \E k \in 1..Len(starts) : starts_with(s, starts[k])

\* str::split('\n'): the pieces between the line feeds, at least one
RECURSIVE split_lf(_)
split_lf(s) ==
    IF ~Contains(s, LF) THEN <<s>>
    ELSE LET i == MinOf({j \in 1..Len(s) : s[j] = LF})
         IN  <<SubSeq(s, 1, i - 1)>> \o split_lf(SubSeq(s, i + 1, Len(s)))

\* str::lines: the pieces the line feeds end, and what follows the last one
\* unless it is empty; a piece loses the '\r' in front of its line feed, and
\* the last piece, which has no line feed, loses a final '\r' only when std
\* strips it
lines(s, strips) ==
    LET pieces == split_lf(s)
        n == Len(pieces)
        kept == IF pieces[n] = <<>> THEN n - 1 ELSE n
        chomp(piece, ended) ==
            IF Len(piece) > 0 /\ piece[Len(piece)] = CR /\ (ended \/ strips)
            THEN SubSeq(piece, 1, Len(piece) - 1)
            ELSE piece
    IN  [k \in 1..kept |-> chomp(pieces[k], k < n)]

lossy_escaped_line_first_start_only(line, escape_starts) ==
    IF starts_with(line, escape_starts[1]) THEN <<32>> \o split_lf(line)[1]
    ELSE split_lf(line)[1]

\* lossy_escaped_line
lossy_escaped_line(line, escape_starts) ==
    LET contains_newline == Contains(line, LF)
        has_special_start == starts_with_any(line, escape_starts)
    IN  IF ~contains_newline /\ ~has_special_start THEN line
        ELSE (IF has_special_start THEN <<32>> ELSE <<>>) \o split_lf(line)[1]

\* [..].join(" ")
RECURSIVE join(_)
join(parts) ==
    IF parts = <<>> THEN <<>>
    ELSE IF Len(parts) = 1 THEN parts[1]
    ELSE parts[1] \o <<32>> \o join(Tail(parts))

strip_newlines_keeps(text, strips) == text

\* strip_newlines
strip_newlines(text, strips) ==
    IF ~Contains(text, CR) /\ ~Contains(text, LF) THEN text
    ELSE join(SelectSeq(lines(text, strips), LAMBDA part : part # <<>>))

\* Option<LinkLabel>
NoLabel == [some |-> FALSE, val |-> <<>>]
SomeLabel(l) == [some |-> TRUE, val |-> l]

\* enum Item: the variant, its string (the text, the URI or the alt text),
\* and what only links, headings and preformatted blocks have
Item(kind, text, label, level, body) ==
    [kind |-> kind, text |-> text, label |-> label, level |-> level, body |-> body]

Item_Text(text) == Item("Text", text, NoLabel, 0, <<>>)
Item_Link(uri, label) == Item("Link", uri, label, 0, <<>>)
Item_Preformatted(alt, body) == Item("Preformatted", alt, NoLabel, 0, body)
Item_Heading(level, text) == Item("Heading", text, NoLabel, level, <<>>)
Item_UnorderedListItem(text) == Item("UnorderedListItem", text, NoLabel, 0, <<>>)
Item_Quote(text) == Item("Quote", text, NoLabel, 0, <<>>)

\* Text::new_lossy, PreformattedText::new_lossy, Quote::new_lossy
Text_new_lossy(line) == lossy_escaped_line(line, SPECIAL_STARTS)
PreformattedText_new_lossy(line) ==
    lossy_escaped_line(line, <<PREFORMATTED_TOGGLE_START>>)
Quote_new_lossy(text) == lossy_escaped_line(text, <<QUOTE_START>>)

\* the URIs handed to add_link: one that parses and one that does not
LinkUris == {<<120>>, <<120, LF>>}

\* uri.try_into().or_else(|_| ".".try_into())
Link_uri(uri) == IF URIReference_try_from(uri) THEN uri ELSE <<46>>

\* Document::add_blank_line
add_blank_line(doc) == Append(doc, Item_Text(<<>>))

\* Document::add_text
add_text(doc, text, strips) ==
    LET ls == lines(text, strips)
    IN  doc \o [k \in 1..Len(ls) |-> Item_Text(Text_new_lossy(ls[k]))]

\* Document::add_link
add_link(doc, uri, label, strips) ==
    Append(doc, Item_Link(Link_uri(uri), SomeLabel(strip_newlines(label, strips))))

\* Document::add_link_without_label
add_link_without_label(doc, uri) ==
    Append(doc, Item_Link(Link_uri(uri), NoLabel))

add_preformatted_with_alt_unescaped(doc, alt, preformatted_text, strips) ==
    Append(doc, Item_Preformatted(strip_newlines(alt, strips),
                                  lines(preformatted_text, strips)))

\* Document::add_preformatted_with_alt
add_preformatted_with_alt(doc, alt, preformatted_text, strips) ==
    LET ls == lines(preformatted_text, strips)
    IN  Append(doc, Item_Preformatted(strip_newlines(alt, strips),
                   [k \in 1..Len(ls) |-> PreformattedText_new_lossy(ls[k])]))

\* Document::add_preformatted
add_preformatted(doc, preformatted_text, strips) ==
    add_preformatted_with_alt(doc, <<>>, preformatted_text, strips)

\* Document::add_heading (level 1, 2 or 3 for H1, H2, H3)
add_heading(doc, level, text, strips) ==
    Append(doc, Item_Heading(level, strip_newlines(text, strips)))

\* Document::add_unordered_list_item
add_unordered_list_item(doc, text, strips) ==
    Append(doc, Item_UnorderedListItem(strip_newlines(text, strips)))

\* Document::add_quote
add_quote(doc, text, strips) ==
    LET ls == lines(text, strips)
    IN  doc \o [k \in 1..Len(ls) |-> Item_Quote(Quote_new_lossy(ls[k]))]

\* writeln!
Line(s) == s \o <<LF>>

\* one arm of the match in Display for Document
Display_item(item) ==
    CASE item.kind = "Text" -> Line(item.text)
      [] item.kind = "Link" ->
            Line(<<61, 62, 32>> \o item.text
                 \o (IF item.label.some THEN <<32>> ELSE <<>>) \o item.label.val)
      [] item.kind = "Preformatted" ->
            Line(<<96, 96, 96>> \o item.text)
            \o Concat([k \in 1..Len(item.body) |-> Line(item.body[k])])
            \o Line(<<96, 96, 96>>)
      [] item.kind = "Heading" ->
            Line([k \in 1..item.level |-> 35] \o <<32>> \o item.text)
      [] item.kind = "UnorderedListItem" -> Line(<<42, 32>> \o item.text)
      [] item.kind = "Quote" -> Line(<<62, 32>> \o item.text)

\* Display for Document
Display(doc) == Concat([k \in 1..Len(doc) |-> Display_item(doc[k])])

\* Document::new
Document_new == <<>>

DocIdle ==
    /\ items = <<>>
    /\ docOp = "idle"
    /\ strips_bare_cr = FALSE

\* the alt texts handed to add_preformatted_with_alt
Alts == {<<>>, <<120>>, <<LF, 96, 96, 96>>, <<120, CR, LF, 120>>}

\* what the builder methods are called with
DocArgs ==
    {[of |-> "unit"]}
    \cup [of : {"text"}, text : Texts]
    \cup [of : {"alt"}, alt : Alts, text : Texts]
    \cup [of : {"short"}, text : LineTexts]
    \cup [of : {"heading"}, level : 1..3, text : LineTexts]
    \cup [of : {"link"}, uri : LinkUris, label : LineTexts]

\* the documents a method is called on: a new one, and one that holds a
\* preformatted block and a line of text
InitialDocs ==
    {Document_new,
     add_text(add_preformatted(Document_new, <<120>>, FALSE), <<120>>, FALSE)}

NotDoc == <<metaVars, recvVars, srvVars, routeVars, callVars>>

\* a builder method returns: the document is doc, the method is recorded
Built(name, doc) ==
    /\ docOp = "input"
    /\ items' = doc
    /\ docOp' = name
    /\ UNCHANGED <<strips_bare_cr, NotDoc>>

AddBlankLine ==
    /\ arg.of = "unit"
    /\ Built("add_blank_line", add_blank_line(items))

AddText ==
    /\ arg.of = "text"
    /\ Built("add_text", add_text(items, arg.text, strips_bare_cr))

AddLink ==
    /\ arg.of = "link"
    /\ Built("add_link", add_link(items, arg.uri, arg.label, strips_bare_cr))

AddLinkWithoutLabel ==
    /\ arg.of = "link"
    /\ Built("add_link_without_label", add_link_without_label(items, arg.uri))

AddPreformatted ==
    /\ arg.of = "text"
    /\ Built("add_preformatted", add_preformatted(items, arg.text, strips_bare_cr))

AddPreformattedWithAlt ==
    /\ arg.of = "alt"
    /\ Built("add_preformatted_with_alt",
             add_preformatted_with_alt(items, arg.alt, arg.text, strips_bare_cr))

AddHeading ==
    /\ arg.of = "heading"
    /\ Built("add_heading", add_heading(items, arg.level, arg.text, strips_bare_cr))

AddUnorderedListItem ==
    /\ arg.of = "short"
    /\ Built("add_unordered_list_item",
             add_unordered_list_item(items, arg.text, strips_bare_cr))

AddQuote ==
    /\ arg.of = "text"
    /\ Built("add_quote", add_quote(items, arg.text, strips_bare_cr))

(***************************************************************************)
(* Specifications.                                                         *)
(***************************************************************************)
InitMeta ==
    /\ metaIn \in MetaInputs
    /\ metaPc = "input"
    /\ metaRes = MetaNone
    /\ RecvIdle
    /\ ServerIdle
    /\ RouteIdle
    /\ CallIdle
    /\ DocIdle

NextMeta == MetaNew \/ MetaNewLossy

SpecMeta == InitMeta /\ [][NextMeta]_vars

InitRecv ==
    /\ recvIn \in RecvInputs
    /\ recvPc = "input"
    /\ recvRes = RecvNone
    /\ MetaIdle
    /\ ServerIdle
    /\ RouteIdle
    /\ CallIdle
    /\ DocIdle

NextRecv == RecvRequest \/ RecvIoFail

SpecRecv == InitRecv /\ [][NextRecv]_vars

\* one client, a handler that may end in every way
Init ==
    /\ timeout = BaseTimeout
    /\ complex_timeout \in {NoTimeout, SomeTimeout(ComplexTimeout)}
    /\ handler = HandlerResults
    /\ clients = 1
    /\ serve = "running"
    /\ accepted = 0
    /\ conns = [c \in Conns |-> NoConn]
    /\ MetaIdle
    /\ RecvIdle
    /\ RouteIdle
    /\ CallIdle
    /\ DocIdle

\* MaxConns clients at once, the complex-body timeout configured
InitServe ==
    /\ timeout = BaseTimeout
    /\ complex_timeout = SomeTimeout(ComplexTimeout)
    /\ handler = SmallHandler
    /\ clients = MaxConns
    /\ serve = "running"
    /\ accepted = 0
    /\ conns = [c \in Conns |-> NoConn]
    /\ MetaIdle
    /\ RecvIdle
    /\ RouteIdle
    /\ CallIdle
    /\ DocIdle

Next ==
    \/ Accept
    \/ AcceptFail
    \/ \E c \in Conns :
        \/ Tick(c)
        \/ TlsDone(c)
        \/ TlsFail(c)
        \/ RequestTimeout(c)
        \/ Receive(c)
        \/ ReceiveIoFail(c)
        \/ Invoke(c)
        \/ InvokePanics(c)
        \/ HandlerDone(c)
        \/ SendHeader(c)
        \/ FlushHeader(c)
        \/ HeaderTimeout(c)
        \/ SendBody(c)
        \/ FlushBody(c)
        \/ BodyTimeout(c)
        \/ SendHeaderData(c)
        \/ SendBodyData(c)
        \/ FlushData(c)
        \/ DataTimeout(c)
        \/ SendIoFail(c)

InitStatus ==
    /\ arg \in [of : {"Status"}, code : U8]
    /\ fn = "input"
    /\ ret = NoRet
    /\ MetaIdle
    /\ RecvIdle
    /\ ServerIdle
    /\ RouteIdle
    /\ DocIdle

NextStatus == StatusCategory \/ StatusIsSuccess

SpecStatus == InitStatus /\ [][NextStatus]_vars

InitHeader ==
    /\ arg \in HeaderInputs
    /\ fn = "input"
    /\ ret = NoRet
    /\ MetaIdle
    /\ RecvIdle
    /\ ServerIdle
    /\ RouteIdle
    /\ DocIdle

NextHeader == WriteHeader \/ WriteHeaderLossy

SpecHeader == InitHeader /\ [][NextHeader]_vars

InitRequest ==
    /\ arg \in [of : {"URIReference"}, query : Queries]
    /\ fn = "input"
    /\ ret = NoRet
    /\ MetaIdle
    /\ RecvIdle
    /\ ServerIdle
    /\ RouteIdle
    /\ DocIdle

NextRequest == RequestFromUri

SpecRequest == InitRequest /\ [][NextRequest]_vars

InitResponse ==
    /\ arg \in ResponseArgs
    /\ fn = "input"
    /\ ret = NoRet
    /\ MetaIdle
    /\ RecvIdle
    /\ ServerIdle
    /\ RouteIdle
    /\ DocIdle

NextResponse ==
    \/ ResponseNotFound
    \/ ResponseClientCertificateRequired
    \/ ResponseBadRequestLossy
    \/ ResponseRedirectTemporaryLossy
    \/ ResponseSuccess

SpecResponse == InitResponse /\ [][NextResponse]_vars

InitDocument ==
    /\ items \in InitialDocs
    /\ docOp = "input"
    /\ strips_bare_cr \in BOOLEAN
    /\ arg \in DocArgs
    /\ fn = "idle"
    /\ ret = NoRet
    /\ MetaIdle
    /\ RecvIdle
    /\ ServerIdle
    /\ RouteIdle

NextDocument ==
    \/ AddBlankLine
    \/ AddText
    \/ AddLink
    \/ AddLinkWithoutLabel
    \/ AddPreformatted
    \/ AddPreformattedWithAlt
    \/ AddHeading
    \/ AddUnorderedListItem
    \/ AddQuote

SpecDocument == InitDocument /\ [][NextDocument]_vars

InitRoute ==
    /\ root = RoutingNode_default
    /\ inserted = {}
    /\ routeOp = NoOp
    /\ MetaIdle
    /\ RecvIdle
    /\ ServerIdle
    /\ CallIdle
    /\ DocIdle

NextRoute == AddRoute \/ MatchPath \/ Shrink

SpecRoute == InitRoute /\ [][NextRoute]_vars

Spec == Init /\ [][Next]_vars

SpecServe == InitServe /\ [][Next]_vars

(***************************************************************************)
(* Properties of Meta.                                                     *)
(***************************************************************************)
NoNewline(s) == \A i \in 1..Len(s) : s[i] # LF

\* the Meta invariant of the data model: no '\n', at most 1024 bytes
MetaInvariant(s) == NoNewline(s) /\ Len(s) <= MAX_LEN

\* the byte offset of the first code point that is '\n' or whose inclusive
\* end offset exceeds 1024; Len(s) when there is none
FirstCut(s) ==
    LET hits == {i \in CharIndices(s) : s[i + 1] = LF \/ i + LenUtf8(s[i + 1]) > MAX_LEN}
    IN  IF hits = {} THEN Len(s) ELSE MinOf(hits)

\* C3: Meta::new_lossy(s) never fails for any UTF-8 string s, and its result
\* has no '\n' and is at most 1024 bytes long.
C3_NewLossyNeverFails ==
    metaPc = "new_lossy" => metaRes.kind = "Ok" /\ MetaInvariant(metaRes.val)

\* C4: Meta::new(s) succeeds iff s has no '\n' and is at most 1024 bytes long;
\* on success the stored meta equals s.
C4_NewIffValid ==
    metaPc = "new" =>
        /\ (metaRes.kind = "Ok") <=> (NoNewline(metaIn) /\ Len(metaIn) <= MAX_LEN)
        /\ metaRes.kind = "Ok" => metaRes.val = metaIn
        /\ metaRes.kind \in {"Ok", "Err"}

\* Meta::new accepted a string of exactly 1024 bytes holding a multi-byte
\* code point
C4_Witness ==
    /\ metaPc = "new"
    /\ metaRes.kind = "Ok"
    /\ Len(metaIn) = MAX_LEN
    /\ \E i \in 1..Len(metaIn) : metaIn[i] >= 128

\* C5: Meta::new_lossy(s) is the prefix of s that ends just before the first
\* code point that is '\n' or whose inclusive end offset exceeds 1024, and is
\* s when there is no such code point.
C5_NewLossyIsPrefix ==
    metaPc = "new_lossy" => metaRes = MetaOk(SubSeq(metaIn, 1, FirstCut(metaIn)))

(***************************************************************************)
(* Properties of the request-line reader.                                  *)
(***************************************************************************)
\* the number of bytes in front of the first CR or LF of the stream
LineLen(s) ==
    LET at == {i \in 1..Len(s) : s[i] \in {CR, LF}}
    IN  IF at = {} THEN Len(s) ELSE MinOf(at) - 1

\* the stream is a line of non-CR, non-LF bytes followed by CRLF
TerminatedByCRLF(s) ==
    /\ Len(s) >= LineLen(s) + 2
    /\ s[LineLen(s) + 1] = CR
    /\ s[LineLen(s) + 2] = LF

\* C9: a request line of n non-CRLF bytes followed by CRLF passes framing for
\* every n <= 1024 (the line without its CRLF goes on to the URI parser), and
\* a line of 1025 bytes followed by CRLF is rejected with UriTooLong.
C9_FramingBoundary ==
    (recvPc = "done" /\ recvRes.err # IoError /\ TerminatedByCRLF(recvIn)) =>
        LET n == LineLen(recvIn)
        IN  /\ n <= REQUEST_URI_MAX_LEN =>
                /\ recvRes.err \notin {BadFraming, UriTooLong}
                /\ recvRes.kind = "Ok" => recvRes.uri = SubSeq(recvIn, 1, n)
            /\ n = REQUEST_URI_MAX_LEN + 1 =>
                recvRes.kind = "Err" /\ recvRes.err = UriTooLong

\* a line of exactly 1024 bytes followed by CRLF was received as a request
C9_Witness ==
    /\ recvPc = "done"
    /\ TerminatedByCRLF(recvIn)
    /\ LineLen(recvIn) = REQUEST_URI_MAX_LEN
    /\ recvRes.kind = "Ok"
    /\ Len(recvRes.uri) = REQUEST_URI_MAX_LEN

\* C10: when the bytes read for the request line do not end with CRLF, the
\* error is BadFraming if at most 1024 bytes were read, and UriTooLong only
\* if the 1026-byte limit was reached.
C10_UnterminatedIsBadFraming ==
    LET read == SubSeq(recvIn, 1, recvRes.consumed)
    IN  (recvPc = "done" /\ recvRes.err # IoError /\ ~EndsWith(read, CRLF)) =>
            /\ recvRes.kind = "Err"
            /\ Len(read) <= REQUEST_URI_MAX_LEN => recvRes.err = BadFraming
            /\ recvRes.err = UriTooLong => Len(read) = REQUEST_URI_MAX_LEN + 2

(***************************************************************************)
(* Properties of the connection engine.                                    *)
(***************************************************************************)
TextMimes == {TextPlain, TextGemini}

\* the complex case as the documentation of Builder states it
Complex(response, cplx) ==
    /\ Status_is_success(response.status)
    /\ response.body.some
    /\ response.meta \notin TextMimes
    /\ cplx.some

\* "50 \r\n"
Header50 == <<53, 48, 32, CR, LF>>

SendFailures == {ErrSend, ErrHeaderTimeout, ErrBodyTimeout, ErrDataTimeout}

\* C1: a response is sent in two phases (header under the timeout, body under
\* the complex timeout) exactly when its status is success, it has a body,
\* its meta is neither text/plain nor text/gemini and a complex timeout is
\* configured; otherwise one deadline covers header, body and flush.
C1_TwoPhaseIffComplex ==
    \A c \in Conns :
        conns[c].pc \in SendPcs =>
            (conns[c].pc \in HeaderPcs \cup BodyPcs
                <=> Complex(conns[c].response, complex_timeout))

\* C2: with a complex timeout configured, a successful text/gemini or
\* text/plain response with a body is over within the timeout of its start.
C2_TextWithinBaseTimeout ==
    \A c \in Conns :
        (/\ conns[c].pc \in SendPcs
         /\ complex_timeout.some
         /\ conns[c].response.status = SUCCESS
         /\ conns[c].response.body.some
         /\ conns[c].response.meta \in TextMimes)
        => conns[c].resp <= timeout

\* C6: a handler that panics, when invoked or when its future is polled, has
\* "50 \r\n" sent on its connection (unless sending it fails).
C6_PanicGets50 ==
    \A c \in Conns :
        (/\ conns[c].handler \in {"invoke_panic", "panic"}
         /\ conns[c].pc = "closed"
         /\ conns[c].outcome \notin SendFailures)
        => conns[c].out = Header50

\* C7: a handler whose future resolves to an error is answered like a panic:
\* the response is status 50 with an empty meta and no body, nothing but its
\* header is written, and the error does not end the task.
C7_HandlerErrorGets50 ==
    \A c \in Conns :
        conns[c].handler = "err" =>
            /\ conns[c].response = Response(PERMANENT_FAILURE, <<>>, NoBody)
            /\ conns[c].out \in {<<>>, Header50}
            /\ conns[c].outcome \in {Running, TaskOk} \cup SendFailures
            /\ conns[c].outcome = TaskOk => conns[c].out = Header50

\* a handler failed and its connection got "50 \r\n"
C7_Witness ==
    \E c \in Conns :
        /\ conns[c].handler = "err"
        /\ conns[c].pc = "closed"
        /\ conns[c].outcome = TaskOk
        /\ conns[c].out = Header50

Failed(conn) == conn.pc = "closed" /\ conn.outcome # TaskOk

\* C8: an error, a timeout or a handler panic on one connection does not end
\* the accept loop and changes no other connection; the loop goes on
\* accepting.
C8_FailureIsolation ==
    /\ [][\A c \in Conns :
            conns'[c] # conns[c] =>
                /\ serve' = serve
                /\ \A d \in Conns \ {c} : conns'[d] = conns[d]]_vars
    /\ []((\E c \in Conns : Failed(conns[c])) /\ serve # ErrAccept /\ accepted < clients
            => ENABLED Accept)

\* the first connection ended by a handler panic and the second was served
\* to the end, with the accept loop still running
C8_Witness ==
    /\ conns[1].outcome = TaskPanicked
    /\ conns[2].outcome = TaskOk
    /\ conns[2].handler = "ok"
    /\ conns[2].out = FormatHeader(conns[2].response) \o BodyBytes
    /\ serve = "running"

\* C16: every request the engine hands to a handler has been routed and has
\* its trailing segments set, so that trailing_segments() does not panic in a
\* handler the server invokes.
C16_RequestsAreRouted ==
    \A c \in Conns :
        conns[c].calls > 0 =>
            /\ conns[c].request.trailing_segments.some
            /\ conns[c].handler # "unwrap_panic"

\* where a task may be suspended: the TLS handshake, the read of the request
\* line, the handler's future, the writes and the flushes
SuspensionPcs == RequestPcs \cup {"poll"} \cup SendPcs

\* the two phase deadlines, as far as they are configured
Deadlines ==
    {timeout} \cup (IF complex_timeout.some THEN {complex_timeout.d} ELSE {})

\* a timeout of task c elapses
Expires(c) ==
    RequestTimeout(c) \/ HeaderTimeout(c) \/ BodyTimeout(c) \/ DataTimeout(c)

C18_RequestPhaseDeadline ==
    /\ [][\A c \in Conns :
            (conns[c].pc = "handshake" /\ conns'[c].pc = "read")
                => conns'[c].t = conns[c].t]_vars
    /\ [](\A c \in Conns :
            /\ conns[c].pc \in RequestPcs =>
                /\ conns[c].t <= timeout
                /\ conns[c].calls = 0
                /\ conns[c].t = timeout =>
                    ENABLED RequestTimeout(c) /\ ~ENABLED Tick(c)
            /\ conns[c].outcome = ErrRequestTimeout =>
                /\ conns[c].pc = "closed"
                /\ conns[c].calls = 0
                /\ conns[c].out = <<>>)

\* the handshake was done in time, the client then stalled and the timeout
\* is about to close the connection during the read of the request line
C18_Witness ==
    \E c \in Conns :
        /\ conns[c].pc = "read"
        /\ conns[c].t = timeout
        /\ conns[c].calls = 0

\* T + C, C being 0 when no complex timeout is configured
ResponseBudget == timeout + complex_timeout.d

\* C19: the emission of a response, whatever its status, meta and body, ends
\* within T + C of its start: no more time passes for it after that, and a
\* task that is out of time is ended by a timeout.
C19_EmissionWithinBudget ==
    \A c \in Conns :
        conns[c].pc \in SendPcs =>
            /\ conns[c].resp <= ResponseBudget
            /\ ~ENABLED Tick(c) => ENABLED Expires(c)

\* a response whose header went out at T and whose body is still not
\* flushed at T + C
C19_Witness ==
    \E c \in Conns :
        /\ conns[c].pc = "body_flush"
        /\ complex_timeout.some
        /\ conns[c].resp = ResponseBudget
        /\ conns[c].out = FormatHeader(conns[c].response) \o BodyBytes

\* C20: with the complex timeout set to None every response is sent under
\* one deadline, the timeout T, which covers header, body and flush; no
\* response gets more.
C20_NoneMeansSingleDeadline ==
    ~complex_timeout.some =>
        \A c \in Conns :
            conns[c].pc \in SendPcs =>
                /\ conns[c].pc \in SinglePcs
                /\ conns[c].resp = conns[c].t
                /\ conns[c].resp <= timeout
                /\ conns[c].t = timeout => ENABLED DataTimeout(c) /\ ~ENABLED Tick(c)

\* no complex timeout: a successful text/gemini response with a body has
\* its header and body written and is at T, waiting for the flush
C20_Witness ==
    \E c \in Conns :
        /\ ~complex_timeout.some
        /\ conns[c].pc = "s_flush"
        /\ conns[c].resp = timeout
        /\ conns[c].response = Response(SUCCESS, TextGemini, SomeBody(BodyBytes))
        /\ conns[c].out = FormatHeader(conns[c].response) \o BodyBytes

\* IsPrefix(s, t): s is t cut short
IsPrefix(s, t) == Len(s) <= Len(t) /\ s = SubSeq(t, 1, Len(s))

\* C21: on a connection the header line (status, space, meta, CRLF) is
\* written in full before any byte of the body, on the single-deadline path
\* and on the two-phase path: what is on the stream is the header line
\* followed by the body, cut short.
C21_HeaderBeforeBody ==
    \A c \in Conns :
        LET header == FormatHeader(conns[c].response)
            body == conns[c].response.body.bytes
        IN  conns[c].out # <<>> =>
                /\ IsPrefix(header, conns[c].out)
                /\ IsPrefix(conns[c].out, header \o body)
                /\ conns[c].pc \in {"hdr", "s_hdr"} => conns[c].out = <<>>

\* a response was sent on the two-phase path: header, then body
C21_Witness ==
    \E c \in Conns :
        /\ conns[c].pc = "body_flush"
        /\ conns[c].out = FormatHeader(conns[c].response) \o BodyBytes

\* C22: a body is sent for status 20 only: for a response of any other
\* status the header is written and not one byte of a body, whatever the
\* handler attached.
C22_BodyOnlyForSuccess ==
    \A c \in Conns :
        (conns[c].pc \in SendPcs \cup {"closed"} /\ conns[c].response.status # SUCCESS) =>
            conns[c].out \in {<<>>, FormatHeader(conns[c].response)}

RequestFailures == {ErrTls, ErrReceive, ErrRequestTimeout}

\* C23: a connection whose request phase fails (the TLS handshake, the
\* framing, the length or the parse of the request line, the timeout) is
\* closed without a reply: no byte is written and the handler is not invoked.
C23_FailedRequestGetsNoReply ==
    \A c \in Conns :
        /\ conns[c].outcome \in RequestFailures =>
            /\ conns[c].pc = "closed"
            /\ conns[c].out = <<>>
            /\ conns[c].calls = 0
            /\ conns[c].handler = "none"
        /\ conns[c].calls > 0 => conns[c].outcome \notin RequestFailures

\* receive_request failed and the connection was closed in silence
C23_Witness ==
    \E c \in Conns :
        /\ conns[c].outcome = ErrReceive
        /\ conns[c].pc = "closed"
        /\ conns[c].out = <<>>
        /\ conns[c].calls = 0

(***************************************************************************)
(* Properties of the routing tree.                                         *)
(***************************************************************************)
\* the normalized paths of the routes that were inserted
Keys == {r.key : r \in inserted}

Prefixes(p) == {SubSeq(p, 1, k) : k \in 0..Len(p)}

\* the inserted routes that are segment-prefixes of path p
Matching(p) == Keys \cap Prefixes(NonEmpty(p))

Longest(S) == CHOOSE k \in S : \A j \in S : Len(j) <= Len(k)

DataAt(key) == (CHOOSE r \in inserted : r.key = key).data

\* the lookup went from the node of `key` through n further nodes
Descended(key, segs, n) ==
    /\ Len(segs) >= n
    /\ \A k \in 1..n : (key \o SubSeq(segs, 1, k)) \in DOMAIN root

\* C11: match_path returns the value inserted at the longest segment-prefix
\* of the lookup path among the inserted routes, also when the descent goes
\* on through nodes without a value beyond that prefix.
C11_LongestPrefix ==
    (routeOp.op = "match" /\ Matching(routeOp.path) # {}) =>
        /\ routeOp.found.some
        /\ routeOp.found.val = DataAt(Longest(Matching(routeOp.path)))

\* two inserted routes are prefixes of the path looked up, and the descent
\* went past the longer one through a node without a value
C11_Witness ==
    /\ routeOp.op = "match"
    /\ Cardinality(Matching(routeOp.path)) >= 2
    /\ routeOp.found.some
    /\ Descended(Longest(Matching(routeOp.path)), routeOp.found.segs, 1)

\* C12: the trailing segments of a successful lookup are the non-empty
\* segments of the path that follow the matched route, in order: the matched
\* route followed by the trailing segments is the path without its empty
\* segments.
C12_TrailingSegments ==
    (routeOp.op = "match" /\ routeOp.found.some) =>
        /\ Matching(routeOp.path) # {}
        /\ LET p == NonEmpty(routeOp.path)
               key == Longest(Matching(routeOp.path))
           IN  /\ routeOp.found.segs = SubSeq(p, Len(key) + 1, Len(p))
               /\ key \o routeOp.found.segs = p

\* the trailing segments hold a segment consumed after the matched node, the
\* segment that had no child and a segment the descent never reached
C12_Witness ==
    /\ routeOp.op = "match"
    /\ routeOp.found.some
    /\ Len(routeOp.found.segs) >= 3
    /\ Descended(Longest(Matching(routeOp.path)), routeOp.found.segs, 1)
    /\ ~Descended(Longest(Matching(routeOp.path)), routeOp.found.segs, 2)

\* C13: inserting at a normalized path at which a route was inserted before
\* returns ConflictingRoute, whatever the spelling (empty segments), and
\* leaves the routes as they were.
C13_SecondInsertConflicts ==
    [][(routeOp'.op = "add" /\ RouteKey(routeOp'.path) \in Keys) =>
            /\ ~routeOp'.ok
            /\ inserted' = inserted
            /\ root' = root]_vars

\* an insertion at a path spelled with an empty segment met a conflict
C13_Witness ==
    /\ routeOp.op = "add"
    /\ ~routeOp.ok
    /\ \E i \in 1..Len(routeOp.path) : routeOp.path[i] = ""
    /\ RouteKey(routeOp.path) # <<>>

\* C14: empty segments are ignored by insertion and by lookup: a route is
\* stored at the node of the non-empty segments of its normalized path, and a
\* lookup returns what the lookup of the path without its empty segments
\* returns.
C14_EmptySegmentsIgnored ==
    /\ routeOp.op = "add" =>
        /\ RouteKey(routeOp.path) \in DOMAIN root
        /\ root[RouteKey(routeOp.path)].some
        /\ \A n \in DOMAIN root : \A i \in 1..Len(n) : n[i] # ""
    /\ routeOp.op = "match" =>
        routeOp.found = match_path(root, NonEmpty(routeOp.path))

\* a path with an empty segment was looked up and matched a route of at
\* least one segment that was inserted
C14_Witness ==
    /\ routeOp.op = "match"
    /\ routeOp.found.some
    /\ NonEmpty(routeOp.path) # routeOp.path
    /\ Longest(Matching(routeOp.path)) # <<>>

\* C15: match_path returns no match exactly when no inserted route is a
\* segment-prefix of the path; with a value at the root every lookup matches.
C15_NoMatchIffNoPrefix ==
    routeOp.op = "match" =>
        /\ ~routeOp.found.some <=> Matching(routeOp.path) = {}
        /\ <<>> \in Keys => routeOp.found.some

\* a lookup went down into a tree that holds routes and found none
C15_Witness ==
    /\ routeOp.op = "match"
    /\ ~routeOp.found.some
    /\ inserted # {}
    /\ NonEmpty(routeOp.path) # <<>>
    /\ <<Head(NonEmpty(routeOp.path))>> \in DOMAIN root

(***************************************************************************)
(* Properties of the types.                                                *)
(***************************************************************************)
\* the category the data model gives to a code
CategoryOf(code) ==
    IF code \in 10..19 THEN "Input"
    ELSE IF code \in 20..29 THEN "Success"
    ELSE IF code \in 30..39 THEN "Redirect"
    ELSE IF code \in 40..49 THEN "TemporaryFailure"
    ELSE IF code \in 60..69 THEN "ClientCertificateRequired"
    ELSE "PermanentFailure"

\* C25: every status code has one category, that of its code divided by ten:
\* 1..6 are Input, Success, Redirect, TemporaryFailure, PermanentFailure and
\* ClientCertificateRequired, every other class is PermanentFailure; and
\* is_success() holds for class 2 and no other.
C25_CategoryTotal ==
    /\ fn = "category" => ret = CategoryOf(arg.code)
    /\ fn = "is_success" => ret = (arg.code \in 20..29)

\* the category of a code outside the classes 1..6 was asked for
C25_Witness ==
    /\ fn = "category"
    /\ arg.code >= 70
    /\ ret = "PermanentFailure"

\* the number of bytes b in s
Count(s, b) == Cardinality({i \in 1..Len(s) : s[i] = b})

\* C24: a header is written as the status in two decimal digits, one space,
\* the meta verbatim and CRLF; the line holds exactly one '\n', its last byte,
\* and is at most 1029 bytes long.
C24_HeaderLine ==
    (fn \in {"header", "header_lossy"} /\ ret.kind = "line") =>
        /\ ret.line = <<48 + (arg.status \div 10), 48 + (arg.status % 10), 32>>
                      \o ret.meta \o <<13, 10>>
        /\ IsPrefix(ret.meta, arg.meta)
        /\ Count(ret.line, 10) = 1
        /\ ret.line[Len(ret.line)] = 10
        /\ Len(ret.line) <= 1029

\* a header line of exactly 1029 bytes was written
C24_Witness ==
    /\ fn = "header"
    /\ ret.kind = "line"
    /\ Len(ret.line) = 1029

\* the bytes a query stands for
Denoted(tokens) == [i \in 1..Len(tokens) |-> tokens[i].byte]

\* text over the bytes of the query tokens: FF occurs in no character, and C3
\* and A9 only together, as the two bytes of one character
IsText(b) ==
    \A i \in 1..Len(b) :
        /\ b[i] # 255
        /\ b[i] = 195 => (i < Len(b) /\ b[i + 1] = 169)
        /\ b[i] = 169 => (i > 1 /\ b[i - 1] = 195)

\* C29: a URI without a query gives the input None; one with a query gives
\* the percent-decoded query (an empty query gives ""); and when the decoded
\* query is not UTF-8 the construction of the request fails.
C29_RequestInput ==
    fn = "from_uri" =>
        LET q == arg.query
        IN  /\ ~q.some => (ret.kind = "Ok" /\ ~ret.input.some)
            /\ (q.some /\ IsText(Denoted(q.tokens))) =>
                   /\ ret.kind = "Ok"
                   /\ ret.input.some
                   /\ ret.input.val = Denoted(q.tokens)
            /\ (q.some /\ ~IsText(Denoted(q.tokens))) => ret.kind = "Err"

\* the query h%20h was decoded to "h h"
C29_Witness ==
    /\ fn = "from_uri"
    /\ arg.query.some
    /\ QueryText(arg.query.tokens) = <<104, 37, 50, 48, 104>>
    /\ ret.kind = "Ok"
    /\ ret.input = SomeInput(<<104, 32, 104>>)

\* a constructor returned the response (status, meta) with a body or without
Gives(status, meta, body) ==
    /\ ret.kind = "Ok"
    /\ ret.response.status = status
    /\ ret.response.meta = meta
    /\ ret.response.body.some = body

\* a constructor returned a response of this status without a body
GivesStatus(status) ==
    /\ ret.kind = "Ok"
    /\ ret.response.status = status
    /\ ~ret.response.body.some

\* C30: not_found() gives (51, "Not found"), client_certificate_required()
\* gives (60, "No certificate provided"), bad_request_lossy(r) gives status
\* 59, success(mime) gives 20 with the MIME string as meta and a body,
\* redirect_temporary_lossy(uri) gives 30 with the URI as meta, or a status-59
\* bad request when the URI does not parse; all but success have no body.
C30_NamedConstructors ==
    /\ fn = "not_found" => Gives(51, NotFoundText, FALSE)
    /\ fn = "client_certificate_required" => Gives(60, NoCertificateText, FALSE)
    /\ fn = "bad_request_lossy" => GivesStatus(59)
    /\ fn = "success" => Gives(20, arg.mime, TRUE)
    /\ fn = "redirect_temporary_lossy" =>
           IF \A i \in 1..Len(arg.s) : arg.s[i] = 120
           THEN Gives(30, arg.s, FALSE)
           ELSE GivesStatus(59)

\* the line starts gemtext reserves: "=>", "```", "#", "*" and ">"
ReservedPrefixes == {<<61, 62>>, <<96, 96, 96>>, <<35>>, <<42>>, <<62>>}

BeginsReserved(l) == \E p \in ReservedPrefixes : IsPrefix(p, l)

BeginsToggle(l) == IsPrefix(<<96, 96, 96>>, l)

\* the positions of the line feeds of s, and the k-th of them
Feeds(s) == {i \in 1..Len(s) : s[i] = 10}
Feed(s, k) == CHOOSE i \in Feeds(s) : Cardinality({j \in Feeds(s) : j <= i}) = k

\* the lines of the bytes written: what each line feed ends
OutputLines(s) ==
    [k \in 1..Cardinality(Feeds(s)) |->
        SubSeq(s, IF k = 1 THEN 1 ELSE Feed(s, k - 1) + 1, Feed(s, k) - 1)]

\* the lines of a text handed to the builder: what each line feed, or a
\* carriage return and a line feed, ends, and what is left after the last
\* line feed when that is not empty (less a final carriage return where the
\* standard library drops one)
InputLines(s, strips) ==
    LET n == Cardinality(Feeds(s))
        from == IF n = 0 THEN 1 ELSE Feed(s, n) + 1
        less_cr(l) ==
            IF l # <<>> /\ l[Len(l)] = 13 THEN SubSeq(l, 1, Len(l) - 1) ELSE l
        ended == [k \in 1..n |-> less_cr(OutputLines(s)[k])]
        rest == SubSeq(s, from, Len(s))
    IN  IF rest = <<>> THEN ended
        ELSE Append(ended, IF strips THEN less_cr(rest) ELSE rest)

\* the last n lines of the serialized document
LastLines(n) ==
    LET out == OutputLines(Display(items))
    IN  SubSeq(out, Len(out) - n + 1, Len(out))

\* C26: whatever was built before, no line written for a Text item begins
\* with "=>", "```", "#", "*" or ">"; add_text writes each line of its text
\* that begins with one of them with one space in front and otherwise
\* unchanged, and every other line as it is.
C26_TextSafety ==
    /\ \A k \in 1..Len(items) :
           items[k].kind = "Text" =>
               /\ Count(Display_item(items[k]), 10) = 1
               /\ ~BeginsReserved(Display_item(items[k]))
    /\ docOp = "add_text" =>
           LET ins == InputLines(arg.text, strips_bare_cr)
               out == LastLines(Len(ins))
           IN  /\ Len(out) = Len(ins)
               /\ \A k \in 1..Len(ins) :
                      out[k] = IF BeginsReserved(ins[k]) THEN <<32>> \o ins[k]
                               ELSE ins[k]

\* add_text("#x") wrote the line " #x"
C26_Witness ==
    /\ docOp = "add_text"
    /\ arg.text = <<35, 120>>
    /\ LastLines(1) = <<(<<32, 35, 120>>)>>

\* C27: a preformatted block is written as its opening line "```<alt>", one
\* line for each line of its text and the closing line "```", and none of
\* the lines in between begins with "```": a line of the text that does is
\* written with one space in front.
C27_PreformattedSafety ==
    /\ \A k \in 1..Len(items) :
           items[k].kind = "Preformatted" =>
               LET out == OutputLines(Display_item(items[k]))
               IN  /\ Len(out) = Len(items[k].body) + 2
                   /\ BeginsToggle(out[1])
                   /\ out[Len(out)] = <<96, 96, 96>>
                   /\ \A j \in 2..(Len(out) - 1) : ~BeginsToggle(out[j])
    /\ docOp \in {"add_preformatted", "add_preformatted_with_alt"} =>
           LET ins == InputLines(arg.text, strips_bare_cr)
               out == LastLines(Len(ins) + 2)
           IN  /\ Len(out) = Len(ins) + 2
               /\ BeginsToggle(out[1])
               /\ \A k \in 1..Len(ins) :
                      out[k + 1] = IF BeginsToggle(ins[k]) THEN <<32>> \o ins[k]
                                   ELSE ins[k]

\* add_preformatted_with_alt wrote the line "```x" of its text as " ```x"
C27_Witness ==
    /\ docOp = "add_preformatted_with_alt"
    /\ arg.text = <<96, 96, 96, 120>>
    /\ LastLines(2) = <<(<<32, 96, 96, 96, 120>>), (<<96, 96, 96>>)>>

(***************************************************************************)
(* Further properties of the request-line reader.                          *)
(***************************************************************************)
\* the positions of the line feeds the client sent
SentFeeds == {i \in 1..Len(recvIn) : recvIn[i] = 10}

C32_AcceptNeverBlocks ==
    (serve = "running" /\ accepted < clients) => ENABLED Accept

\* the second client was accepted while the first, its handler out of time,
\* was still being served
C32_Witness ==
    /\ accepted = 2
    /\ conns[1].pc = "poll"
    /\ conns[1].t = MaxHandlerTicks
    /\ conns[2].pc = "handshake"
    /\ conns[2].t = 0

\* C33: serve ends only when accept() fails, and what it returns is that
\* error; nothing that happens on a connection makes it return.
C33_OnlyAcceptErrorEndsServe ==
    /\ [](serve \in {"running", "Failed to accept client"})
    /\ [][serve' # serve =>
            /\ serve = "running"
            /\ serve' = "Failed to accept client"
            /\ conns' = conns]_vars
    /\ [][conns' # conns => serve' = serve]_vars

\* serve returned the accept error after one task had panicked and another
\* had failed to send
C33_Witness ==
    /\ serve = "Failed to accept client"
    /\ conns[1].outcome = TaskPanicked
    /\ conns[2].outcome = ErrSend

ResponseTimeouts ==
    {"Timed out while sending response header",
     "Timed out while sending response body",
     "Timed out while sending response data"}

\* C34: when a deadline of the response phase elapses the write is given up:
\* the connection is closed, nothing is written on it afterwards, and after
\* a timeout of the header phase no byte of the body was ever written.
C34_TimeoutAbandonsWrite ==
    /\ [](\A c \in Conns :
            conns[c].outcome \in ResponseTimeouts =>
                /\ conns[c].pc = "closed"
                /\ IsPrefix(conns[c].out,
                            FormatHeader(conns[c].response) \o conns[c].response.body.bytes)
                /\ conns[c].outcome = "Timed out while sending response header" =>
                       conns[c].out \in {<<>>, FormatHeader(conns[c].response)})
    /\ [][\A c \in Conns :
            conns[c].outcome \in ResponseTimeouts => conns'[c] = conns[c]]_vars

\* the header of a response with a body was written, its flush timed out
\* and the body was not written
C34_Witness ==
    \E c \in Conns :
        /\ conns[c].outcome = "Timed out while sending response header"
        /\ conns[c].pc = "closed"
        /\ conns[c].response.body.some
        /\ conns[c].out = FormatHeader(conns[c].response)

\* C35: a task gives up its stream on every way it can end: a response that
\* was sent, an error or the timeout of the request phase, a timeout or an
\* error of the response phase, a handler error and a panic.
C35_EveryEndCloses ==
    \A c \in Conns :
        /\ conns[c].outcome # "running" <=> conns[c].pc = "closed"
        /\ conns[c].pc = "closed" => ~ENABLED Tick(c)

\* one task ended by a panic, the other by the timeout of the request phase,
\* both with the connection closed
C35_Witness ==
    /\ conns[1].outcome = TaskPanicked
    /\ conns[1].pc = "closed"
    /\ conns[2].outcome = ErrRequestTimeout
    /\ conns[2].pc = "closed"

\* the handler has completed: its future resolved or panicked
Completed == {"ok", "err", "panic", "unwrap_panic"}

\* C36: on a connection the handler is invoked at most once, at most one
\* header is written, and it is written only after the handler has
\* completed, with a response, with an error or by a panic.
C36_OneCallOneHeader ==
    \A c \in Conns :
        /\ conns[c].calls <= 1
        /\ conns[c].out \in
               {<<>>, FormatHeader(conns[c].response),
                FormatHeader(conns[c].response) \o conns[c].response.body.bytes}
        /\ conns[c].out # <<>> =>
               /\ conns[c].calls = 1
               /\ conns[c].handler \in Completed

\* a response with a body was sent to the end after one call of the handler
C36_Witness ==
    \E c \in Conns :
        /\ conns[c].outcome = TaskOk
        /\ conns[c].calls = 1
        /\ conns[c].response.body.some
        /\ conns[c].out = FormatHeader(conns[c].response) \o conns[c].response.body.bytes

(***************************************************************************)
(* Further properties of the routing tree.                                 *)
(***************************************************************************)
\* every lookup returns in the next state what it returns in this one
SameLookups == \A q \in LookupPaths : match_path(root', q) = match_path(root, q)

\* C37: an insertion that returns ConflictingRoute changes nothing that can
\* be observed: the value stored at the path is the one stored before, and
\* every lookup returns the value and the trailing segments it returned
\* before.  (Every tree is first reached by Init or by an insertion, and a
\* lookup leaves it as it is: the lookups are compared on the insertions
\* made from those states.)
C37_ConflictChangesNothing ==
    [][(routeOp'.op = "add" /\ ~routeOp'.ok) =>
            LET key == RouteKey(routeOp'.path)
            IN  /\ key \in DOMAIN root
                /\ root[key].some
                /\ root'[key] = root[key]
                /\ inserted' = inserted
                /\ routeOp.op # "match" => SameLookups]_vars

\* an insertion at a path that holds an earlier route met a conflict, and
\* the earlier route's value is still at the path
C37_Witness ==
    /\ routeOp.op = "add"
    /\ ~routeOp.ok
    /\ Cardinality(inserted) >= 2
    /\ root[RouteKey(routeOp.path)] = SomeT(1)

\* the tree a set of routes stands for, whatever the order they came in: a
\* node for every segment-prefix of a route, a value where a route ends
TreeOf(routes) ==
    LET keys == {r.key : r \in routes}
        nodes == {<<>>} \cup UNION {Prefixes(k) : k \in keys}
    IN  [n \in nodes |->
            IF n \in keys THEN SomeT((CHOOSE r \in routes : r.key = n).data)
            ELSE NoneT]

\* C38: a successful insertion at route p changes the result of a lookup
\* only for the paths that have p as a segment-prefix; every other lookup
\* returns the value and the trailing segments it returned before.  Hence
\* the tree, and with it every lookup, is determined by the set of routes
\* inserted and not by their order.
C38_InsertionIsLocal ==
    /\ [][(routeOp'.op = "add" /\ routeOp'.ok /\ routeOp.op # "match") =>
            \A q \in LookupPaths :
                ~IsPrefix(RouteKey(routeOp'.path), NonEmpty(q)) =>
                    match_path(root', q) = match_path(root, q)]_vars
    /\ [](root = TreeOf(inserted))

\* a route was inserted after a longer route that it is a segment-prefix of
C38_Witness ==
    /\ routeOp.op = "add"
    /\ routeOp.ok
    /\ \E r \in inserted :
        /\ r.key # RouteKey(routeOp.path)
        /\ IsPrefix(RouteKey(routeOp.path), r.key)
        /\ r.data < DataAt(RouteKey(routeOp.path))

\* C39: a lookup leaves the tree as it is, so that lookups made in any order
\* between two insertions return what each returns alone; and shrink leaves
\* the value and the trailing segments of every lookup as they were.
C39_LookupAndShrinkKeepRoutes ==
    /\ [][routeOp'.op = "match" =>
            /\ root' = root
            /\ inserted' = inserted
            /\ routeOp'.found = match_path(root, routeOp'.path)]_vars
    /\ [][routeOp'.op = "shrink" =>
            /\ inserted' = inserted
            /\ DOMAIN root' = DOMAIN root
            /\ routeOp.op # "match" => SameLookups]_vars

\* shrink was called on a tree with a route of two segments, whose first
\* segment leads to a node without a value
C39_Witness ==
    /\ routeOp.op = "shrink"
    /\ inserted # {}
    /\ \E n \in DOMAIN root : n # <<>> /\ ~root[n].some /\ Children(root, n) # {}

(***************************************************************************)
(* Further properties of the document builder.                             *)
(***************************************************************************)
\* the non-empty lines of a text, with one space between two of them
Joined(s, strips) ==
    LET ls == SelectSeq(InputLines(s, strips), LAMBDA l : l # <<>>)
    IN  Concat([k \in 1..Len(ls) |-> IF k = 1 THEN ls[k] ELSE <<32>> \o ls[k]])

OneLineKinds == {"Heading", "UnorderedListItem", "Link", "Text", "Quote"}

\* the item the last call added
LastItem == items[Len(items)]

\* C40: a builder method only adds to what the document is written as; a
\* heading, a list item, a link, a text line and a quote line are each
\* written as bytes with one '\n', the last of them; and the heading, the
\* list item, the label and the alt text written are the non-empty lines of
\* the text handed in with one space between them.
C40_AppendOnlyLineSafe ==
    /\ [][IsPrefix(Display(items), Display(items'))]_vars
    /\ [](\A k \in 1..Len(items) :
              items[k].kind \in OneLineKinds =>
                  LET out == Display_item(items[k])
                  IN  Feeds(out) = {Len(out)})
    /\ [](/\ docOp = "add_heading" =>
                 /\ LastItem.kind = "Heading"
                 /\ LastItem.text = Joined(arg.text, strips_bare_cr)
          /\ docOp = "add_unordered_list_item" =>
                 /\ LastItem.kind = "UnorderedListItem"
                 /\ LastItem.text = Joined(arg.text, strips_bare_cr)
          /\ docOp = "add_link" =>
                 /\ LastItem.kind = "Link"
                 /\ LastItem.label = SomeLabel(Joined(arg.label, strips_bare_cr))
          /\ docOp = "add_preformatted_with_alt" =>
                 /\ LastItem.kind = "Preformatted"
                 /\ LastItem.text = Joined(arg.alt, strips_bare_cr)
                 /\ Feeds(LastItem.text) = {})

\* add_heading("x\ny") at level 1 wrote the line "# x y" after the lines of
\* a document that held a preformatted block and a line of text
C40_Witness ==
    /\ docOp = "add_heading"
    /\ arg.text = <<120, 10, 120>>
    /\ arg.level = 1
    /\ Len(items) = 3
    /\ LastLines(1) = <<(<<35, 32, 120, 32, 120>>)>>

====
